---- MODULE Spec2Model ----
(***************************************************************************)
(* Segment controller firmware: packet codec and dispatcher               *)
(* (src/src/packet.c) as driven by the two server threads of the network  *)
(* layer (src/unnamed/part_002) and by main (src/src/main.c).             *)
(*                                                                         *)
(* C offsets are 0-based, TLA+ sequences 1-based: data[i] in the source   *)
(* is data[i + 1] here.                                                    *)
(***************************************************************************)
EXTENDS Integers, Sequences, FiniteSets, TLC

\* ------------------------------------------------------------------ bounds
\* Frames that fail a counted check are delivered only while the error
\* counter is below this cap (the counter itself is a uint16_t).
MaxErrors == 1

\* imu_update is called at most this many times.
MaxUpdates == 3

\* ------------------------------------------------- constants of packet.h
PACKET_MAGIC_MASTER_TO_STM32 == 43605
PACKET_MAGIC_STM32_TO_MASTER == 47957

CMD_TRAJECTORY == 1
CMD_EMERGENCY_STOP == 2
CMD_START_HOMING == 3
CMD_JOG_MOTOR == 7
CMD_SET_MODE == 8
CMD_SET_ZERO_OFFSET == 9

MODE_IDLE == 1
MODE_HOMING == 2
MODE_OPERATION == 3

ERROR_NO_ERROR == 0
ERROR_CRC_ERROR == 5

BROADCAST_ID == 255

\* bits of the status byte that packet_get_status_flags sets
STATUS_E_STOP_ACTIVE == 1
STATUS_HOMING_IN_PROGRESS == 2
STATUS_TRAJECTORY_EXECUTING == 32
STATUS_ERROR_PRESENT == 128

\* sizeof of the packed command structures
SIZEOF_trajectory_packet_t == 112
SIZEOF_emergency_stop_packet_t == 7
SIZEOF_start_homing_packet_t == 7
SIZEOF_jog_motor_packet_t == 13
SIZEOF_set_mode_packet_t == 7
SIZEOF_set_zero_offset_packet_t == 6

\* telemetry packets
FEEDBACK_MOTOR_STATE == 1
FEEDBACK_DIAGNOSTICS == 3
SIZEOF_motor_state_packet_t == 83
SIZEOF_diagnostics_packet_t == 22

\* ------------------------------------------------ constants of tmc9660.h
TMC9660_DEFAULT_DEVICE_ADDR == 1
TMC9660_DEFAULT_HOST_ADDR == 255
TMC9660_MSG_SIZE == 8
TMC9660_CMD_GET_INFO == 0
TMC9660_CMD_SET_BANK == 9
TMC9660_CMD_SET_ADDRESS == 11
TMC9660_CMD_READ_32 == 12
TMC9660_CMD_WRITE_32 == 18
TMC9660_BANK_RESERVED == 0
TMC9660_BANK_OTP == 3
TMC9660_BANK_CONFIG == 5
TMC9660_CONFIG_BASE_ADDR == 131072
TMC9660_CONFIG_SIZE == 64
TMC9660_STATUS_OK == 0
TMC9660_STATUS_BUSY == 15
TMC9660_INFO_CHIP_TYPE == 0
TMC9660_INFO_BL_VERSION == 1
TMC9660_INFO_CHIP_VERSION == 13
TMC9660_CHIP_TYPE_EXPECTED == 1414332417

\* initial .current_bank of every instance
BANK_INVALID == 255

\* errno values returned negated by the driver
EIO == 5
ENODEV == 19
EINVAL == 22
EBADMSG == 77
ETIMEDOUT == 116

\* width of uint16_t error_count
UINT16_MOD == 65536

\* --------------------------------------------------------------- CRC16
RECURSIVE Xor(_, _)
Xor(a, b) ==
  IF a = 0 THEN b
  ELSE IF b = 0 THEN a
  ELSE ((a + b) % 2) + 2 * Xor(a \div 2, b \div 2)

\* One iteration of the loop of Zephyr's crc16_ccitt (zephyr/sys/crc.h):
\*   e = seed ^ *src++;  f = e ^ (e << 4);          (uint8_t)
\*   seed = (seed >> 8) ^ (f << 8) ^ (f << 3) ^ (f >> 4);   (uint16_t)
crc16_step(seed, byte) ==
  LET e == Xor(seed, byte) % 256
      f == Xor(e, (e * 16) % 256)
  IN Xor(Xor(Xor(seed \div 256, (f * 256) % 65536), (f * 8) % 65536),
         f \div 16)

\* The loop over src[lo..hi], folded left to right; the range is split in
\* halves only to keep the evaluation depth logarithmic.
RECURSIVE crc16_range(_, _, _, _)
crc16_range(seed, src, lo, hi) ==
  IF lo > hi THEN seed
  ELSE IF lo = hi THEN crc16_step(seed, src[lo])
  ELSE LET mid == (lo + hi) \div 2
           left == crc16_range(seed, src, lo, mid)
       IN IF left >= 0 THEN crc16_range(left, src, mid + 1, hi) ELSE 0

crc16_ccitt(seed, src, len) == crc16_range(seed, src, 1, len)

\* Variant: only the length is tested.
crc16_verify_length_only(data, length) == length >= 2

\* crc16.h: crc16_verify(data, length)
crc16_verify(data, length) ==
  IF length < 2 THEN FALSE
  ELSE LET calculated_crc == crc16_ccitt(65535, data, length - 2)
           packet_crc == data[length - 1] + 256 * data[length]
       IN calculated_crc = packet_crc

\* ------------------------------------------------ frames on the wire
LE16(v) == <<v % 256, v \div 256>>

\* What the master does to frame a command: header, payload, CRC16 of all
\* preceding bytes appended little-endian.
Seal(body) == body \o LE16(crc16_ccitt(65535, body, Len(body)))

Header(magic, type, seg) == LE16(magic) \o <<type, seg>>

Zeros(n) == [i \in 1..n |-> 0]

Cmd(type, seg, payload) ==
  Seal(Header(PACKET_MAGIC_MASTER_TO_STM32, type, seg) \o payload)

\* Target segment ids carried by frames, own ids a node is configured with,
\* and mode bytes carried by SetMode frames.
TargetIds == {0, 3, 7, BROADCAST_ID}
SegIds == {0, 3}
ModeBytes == {0, MODE_IDLE, MODE_HOMING, MODE_OPERATION, 255}

EStopFrames == {Cmd(CMD_EMERGENCY_STOP, s, <<1>>) : s \in TargetIds}
StartHomingFrames == {Cmd(CMD_START_HOMING, s, <<1>>) : s \in {0, 7}}
SetModeFrames == {Cmd(CMD_SET_MODE, s, <<m>>) : s \in {0, 7}, m \in ModeBytes}
JogMotorFrames == {Cmd(CMD_JOG_MOTOR, 0, <<1, 1, 0, 0, 128, 63, 50>>)}
TrajectoryFrames ==
  {Cmd(CMD_TRAJECTORY, 0, <<1>> \o Zeros(SIZEOF_trajectory_packet_t - 7))}
SetZeroOffsetFrames == {Cmd(CMD_SET_ZERO_OFFSET, 0, <<>>)}

ExactFrames ==
  EStopFrames \cup StartHomingFrames \cup SetModeFrames \cup JogMotorFrames
  \cup TrajectoryFrames \cup SetZeroOffsetFrames

CommandTypes ==
  {CMD_TRAJECTORY, CMD_EMERGENCY_STOP, CMD_START_HOMING, CMD_JOG_MOTOR,
   CMD_SET_MODE, CMD_SET_ZERO_OFFSET}

SizeOf(type) ==
  CASE type = CMD_TRAJECTORY -> SIZEOF_trajectory_packet_t
    [] type = CMD_EMERGENCY_STOP -> SIZEOF_emergency_stop_packet_t
    [] type = CMD_START_HOMING -> SIZEOF_start_homing_packet_t
    [] type = CMD_JOG_MOTOR -> SIZEOF_jog_motor_packet_t
    [] type = CMD_SET_MODE -> SIZEOF_set_mode_packet_t
    [] type = CMD_SET_ZERO_OFFSET -> SIZEOF_set_zero_offset_packet_t
    [] OTHER -> 0

\* Correct magic and CRC16, known type, but 6, 7 or 8 bytes where the type
\* wants another size; the payload starts with the byte of MODE_OPERATION.
Pads == {<<>>, <<MODE_OPERATION>>, <<MODE_OPERATION, 0>>}
WrongSizeFrames ==
  UNION {{Cmd(ty, BROADCAST_ID, p) : p \in {q \in Pads : 6 + Len(q) # SizeOf(ty)}}
         : ty \in CommandTypes}

UnknownTypeFrames ==
  {Cmd(85, BROADCAST_ID, <<>>), Cmd(4, 0, <<MODE_OPERATION>>)}

BadMagicFrames ==
  {Seal(Header(PACKET_MAGIC_STM32_TO_MASTER, CMD_EMERGENCY_STOP,
               BROADCAST_ID) \o <<1>>)}

\* A frame with the byte at C offset i replaced by v, trailer untouched.
Corrupt(f, i, v) == [f EXCEPT ![i + 1] = v]

BadCrcFrames ==
  {Corrupt(Cmd(CMD_EMERGENCY_STOP, BROADCAST_ID, <<1>>), 4, 2),
   Corrupt(Cmd(CMD_SET_MODE, 0, <<MODE_IDLE>>), 4, MODE_OPERATION)}

\* Valid frames with one byte between the magic and the trailer changed on
\* the way: the type byte, the segment id, the first and the last payload
\* byte, each with its lowest or its highest bit flipped.
FlipBases ==
  {Cmd(CMD_EMERGENCY_STOP, BROADCAST_ID, <<1>>),
   Cmd(CMD_START_HOMING, 0, <<1>>),
   Cmd(CMD_SET_MODE, 0, <<MODE_IDLE>>),
   Cmd(CMD_SET_MODE, 0, <<MODE_HOMING>>)}
  \cup JogMotorFrames \cup TrajectoryFrames \cup SetZeroOffsetFrames

FlipOffsets(f) == {i \in {2, 3, 4, Len(f) - 3} : i <= Len(f) - 3}

FlipMasks == {1, 128}

FlippedFrames ==
  UNION {{Corrupt(f, i, Xor(f[i + 1], m)) : i \in FlipOffsets(f), m \in FlipMasks}
         : f \in FlipBases}

\* recv() and recvfrom() hand over at least one byte.
ShortFrames == {<<85>>, <<85, 170, CMD_EMERGENCY_STOP, BROADCAST_ID, 1>>}

Frames ==
  ExactFrames \cup WrongSizeFrames \cup UnknownTypeFrames \cup BadMagicFrames
  \cup BadCrcFrames \cup ShortFrames \cup FlippedFrames

\* Frames that fail one of the three counted tests, by construction.
CountedErrorFrames ==
  BadMagicFrames \cup BadCrcFrames \cup ShortFrames \cup FlippedFrames

\* Frames the master also sends on one path while a frame of this set is
\* waiting or being dispatched on the other path; every other frame is sent
\* while the other path is quiet.
RaceFrames ==
  {Cmd(CMD_EMERGENCY_STOP, BROADCAST_ID, <<1>>),
   Cmd(CMD_EMERGENCY_STOP, 3, <<1>>),
   Cmd(CMD_SET_MODE, 7, <<MODE_OPERATION>>),
   Cmd(CMD_SET_MODE, 7, <<MODE_HOMING>>),
   Cmd(CMD_START_HOMING, 0, <<1>>)}

\* ------------------------------------------------------------- state
Threads == {"tcp", "udp"}

NoFrame == <<>>
NoRet == -2
NoSnap == [mode |-> 0, estop |-> FALSE, errs |-> 0, last |-> 0, seg |-> 0]
NoRace ==
  [S0 |-> [mode |-> 0, estop |-> FALSE],
   f |-> [t \in Threads |-> NoFrame],
   left |-> {}]

\* The three angles 0.0f: static initialisation, memset, and the
\* placeholders of packet_build_motor_state.
NoAngles == [roll |-> 0, pitch |-> 0, yaw |-> 0]

\* diag_pkt after memset(pkt, 0, sizeof(*pkt)), SystemState fields only
NoDiag == [error_count |-> 0, last_error_code |-> 0]

VARIABLES
  current_mode,           \* packet.c: static uint8_t current_mode
  emergency_stop_active,  \* packet.c: static bool emergency_stop_active
  error_count,            \* packet.c: static uint16_t error_count
  last_error,             \* packet.c: static uint8_t last_error
  my_segment_id,          \* packet.c: static uint8_t my_segment_id
  main_pc,                \* position of main()
  pc,                     \* position of each server thread
  sock,                   \* frame waiting in each thread's socket
  rx,                     \* rx_buffer[0 .. ret-1] of each thread
  ret,                    \* value returned by packet_parse_command
  pre,                    \* SystemState when the thread entered parse
  handlers,               \* handlers entered during the current parse
  shadow,                 \* (mode, latch) of a node that was sent only the
                          \* well-formed frames
  race,                   \* two frames that were waiting at the same time
                          \* on the two paths, and the state they found
  build_pc,               \* position of main() in packet_build_diagnostics
  diag,                   \* main.c: diagnostics_packet_t diag_pkt
  held,                   \* (error_count, last_error) pairs SystemState has
                          \* held since the build of diag_pkt read its first
  current_data,           \* imu.c: static imu_data_t current_data; an angle
                          \* is named by the update that computed it
  madgwick,               \* imu.c: static madgwick_t madgwick, named by the
                          \* number of updates applied to the quaternion
  imu_pc,                 \* position of the thread that runs the estimator
  reader_pc,              \* position of the thread that builds MotorState
  pkt_imu,                \* imu_roll, imu_pitch, imu_yaw of its packet
  tx,                     \* bytes of the telemetry packet built last
  motors,                 \* part_004: motors[].state of each instance
  tpc,                    \* position of each thread that calls the driver
  call,                   \* the driver call each such thread is in
  done,                   \* the driver call that returned last
  mutex,                  \* part_004: motors[].mutex of each instance
  xpc,                    \* position of the lock holder in tmc9660_transact
  xact,                   \* arguments and results of that tmc9660_transact
  wire,                   \* bytes the device has still to put on the line
  uart_rx,                \* bytes received, not yet taken by uart_poll_in
  reply,                  \* tmc9660_transact: reply[0 .. i-1] of uart_recv
  uptime,                 \* k_uptime_get() since the request was sent
  end_time,               \* uart_recv: end_time, on the same origin
  init_all,               \* tmc9660_init_all: position, i, success_count and
                          \* what each tmc9660_init returned
  filter,                 \* part_003: the madgwick_t that m points to, its
                          \* floats by value
  updates,                \* number of madgwick_update calls on it
  euler,                  \* madgwick_get_euler: *roll, *pitch, *yaw and the
                          \* local sinp of the last call
  chip                    \* the TMC9660 on the line of each instance: the
                          \* bank and address it has selected, the words
                          \* written to it

vars ==
  <<current_mode, emergency_stop_active, error_count, last_error,
    my_segment_id, main_pc, pc, sock, rx, ret, pre, handlers, shadow, race,
    build_pc, diag, held, current_data, madgwick, imu_pc, reader_pc,
    pkt_imu, tx, motors, tpc, call, done, mutex, xpc, xact, wire, uart_rx,
    reply, uptime, end_time, init_all, filter, updates,
    euler, chip>>

\* Variables of the attitude filter of part_003.
filtervars == <<filter, updates, euler>>

imuvars == <<current_data, madgwick, imu_pc, reader_pc, pkt_imu>>

\* Variables of the packet codec, its threads and main.
packetvars ==
  <<current_mode, emergency_stop_active, error_count, last_error,
    my_segment_id, main_pc, pc, sock, rx, ret, pre, handlers, shadow, race,
    build_pc, diag, held, tx>>

tmcvars == <<motors, tpc, call, done>>

\* Variables of one exchange on the serial line of an instance.
linkvars == <<xpc, xact, wire, uart_rx, reply, uptime, end_time>>

\* Variables of the device drivers.
devvars == <<imuvars, tmcvars, mutex, linkvars, init_all, filtervars, chip>>

\* Variables outside the calls of the TMC9660 driver.
outside_tmc == <<packetvars, imuvars, filtervars, chip>>

\* The addresses of the words of a chip that the calls reach, and the words
\* there after reset.
ChipAddrs == {0, TMC9660_CONFIG_BASE_ADDR + 4, TMC9660_CONFIG_BASE_ADDR + 8}

ResetWord(addr) == 100 + (addr % TMC9660_CONFIG_SIZE)

ResetWords == [a \in ChipAddrs |-> ResetWord(a)]

\* Variables outside the driver and the chips it talks to.
outside_chip ==
  <<packetvars, imuvars, filtervars, mutex, linkvars, init_all>>

\* Variables outside the calls of tmc9660_get_info and the serial line.
outside_link == <<outside_tmc, init_all>>

\* Variables that the driver calls taken as single steps leave alone.
outside_call == <<outside_tmc, mutex, linkvars, init_all>>

\* Variables outside the orientation estimator.
outside_imu ==
  <<packetvars, tmcvars, mutex, linkvars, init_all, filtervars, chip>>

\* Variables that packet dispatch neither reads nor writes.
outside_dispatch == <<build_pc, diag, tx, devvars>>

sysvars ==
  <<current_mode, emergency_stop_active, error_count, last_error,
    my_segment_id>>

Snap ==
  [mode |-> current_mode, estop |-> emergency_stop_active,
   errs |-> error_count, last |-> last_error, seg |-> my_segment_id]

\* ---------------------------------------------------- frame accessors
PktType(data) == data[3]
PktSegment(data) == data[4]
PktPayload0(data) == data[5]
Magic(data) == data[1] + 256 * data[2]

\* The three counted checks at the head of packet_parse_command.
HeadChecksPass(data) ==
  /\ Len(data) >= 6
  /\ Magic(data) = PACKET_MAGIC_MASTER_TO_STM32
  /\ crc16_verify(data, Len(data))


\* Variants of the target test: without the broadcast id, and without any
\* test.
EStopTargetsMe_own_only(segment_id, own) == segment_id = own

EStopTargetsMe_everyone(segment_id, own) == segment_id \in 0..255

\* packet_handle_emergency_stop: broadcast or targeted to us
EStopTargetsMe(segment_id, own) ==
  segment_id = BROADCAST_ID \/ segment_id = own

\* ------------------------------------------------------ status byte
\* Variant that also reports a valid calibration.
StatusFlagsOf_calibrated(estop, mode, last) ==
  64 + (IF estop THEN STATUS_E_STOP_ACTIVE ELSE 0)
     + (IF mode = MODE_HOMING THEN STATUS_HOMING_IN_PROGRESS ELSE 0)
     + (IF mode = MODE_OPERATION THEN STATUS_TRAJECTORY_EXECUTING ELSE 0)
     + (IF last # ERROR_NO_ERROR THEN STATUS_ERROR_PRESENT ELSE 0)

\* packet_get_status_flags on given values of emergency_stop_active,
\* current_mode and last_error: flags starts at 0 and each test ORs in one
\* bit, the bits being distinct.
StatusFlagsOf(estop, mode, last) ==
  (IF estop THEN STATUS_E_STOP_ACTIVE ELSE 0)
  + (IF mode = MODE_HOMING THEN STATUS_HOMING_IN_PROGRESS ELSE 0)
  + (IF mode = MODE_OPERATION THEN STATUS_TRAJECTORY_EXECUTING ELSE 0)
  + (IF last # ERROR_NO_ERROR THEN STATUS_ERROR_PRESENT ELSE 0)

\* packet_get_status_flags() called in the current state
packet_get_status_flags ==
  StatusFlagsOf(emergency_stop_active, current_mode, last_error)

\* ------------------------------------------------------- scheduling
\* Both server threads are created with K_PRIO_COOP(7) on a single core:
\* a cooperative thread keeps the CPU until it blocks, so a thread runs
\* only while the other one is blocked in recv()/recvfrom() (printk does
\* not block).
Blocked == {"off", "recv"}

\* Variant: preemptible threads, any ready thread runs at any time.
k_sched_preemptive(t) == pc[t] \in STRING


k_sched_allows(t) == \A u \in Threads \ {t} : pc[u] \in Blocked

\* ------------------------------------------- TMC9660 driver, state
Motors == {"A", "B", "C"}
Callers == {"app", "ctl"}

\* What the link and the device make of one request: a good reply with
\* status OK, no complete reply within the deadline, a reply whose CRC8 is
\* wrong, a good reply with another status.
Outcomes == {"ok", "timeout", "crc", "status"}

\* No value has been stored through the caller's value pointer.
NoValue == -1

NoCall ==
  [op |-> "none", motor |-> "A", arg |-> 0, value |-> 0, sent |-> <<>>,
   rets |-> <<>>, ret |-> NoRet, out |-> NoValue, bank0 |-> 0, addr0 |-> 0,
   ready0 |-> FALSE]

\* No tmc9660_transact has been entered.
NoTransact ==
  [cmd |-> 0, req_value |-> 0, status_ptr |-> FALSE, requests |-> 0,
   ret |-> NoRet, reply_value |-> NoValue, reply_status |-> NoValue,
   answer |-> <<>>]

\* tmc9660_init_all is not running.
NoInitAll ==
  [pc |-> "idle", i |-> 0, success_count |-> 0, ret |-> NoRet,
   each |-> <<>>]

InitTmc ==
  /\ motors = [m \in Motors |->
                [current_bank |-> BANK_INVALID, current_addr |-> 0,
                 initialized |-> FALSE, chip_type |-> 0, chip_version |-> 0,
                 bootloader_version |-> 0]]
  /\ tpc = [c \in Callers |-> "idle"]
  /\ call = [c \in Callers |-> NoCall]
  /\ done = NoCall
  /\ mutex = [m \in Motors |-> [owner |-> "none", wait_q |-> <<>>]]
  /\ xpc = "idle"
  /\ xact = NoTransact
  /\ wire = <<>>
  /\ uart_rx = <<>>
  /\ reply = <<>>
  /\ uptime = 0
  /\ end_time = 0
  /\ init_all = NoInitAll
  /\ chip = [m \in Motors |->
              [bank |-> TMC9660_BANK_RESERVED, addr |-> 0, mem |-> ResetWords,
               failed |-> FALSE]]

\* ------------------------------------------- float, as part_003 uses it
\* A float is a number, held in thousandths, an infinity (v = 1 or -1) or
\* a NaN; the operators round a result to the nearest thousandth where the
\* hardware rounds it to the nearest float, and follow IEEE 754 for the
\* infinities and NaN.
Scale == 1000

Num(n) == [k |-> "num", v |-> n]

Inf(sign) == [k |-> "inf", v |-> sign]

NaN == [k |-> "nan", v |-> 0]

\* The float nearest to the decimal literal of integer part i.
Lit(i) == Num(i * Scale)

Sign(a) == IF a.v < 0 THEN -1 ELSE 1

Abs(n) == IF n < 0 THEN -n ELSE n

\* n / d to the nearest integer, for d > 0.
RoundDiv(n, d) ==
  IF n >= 0 THEN (2 * n + d) \div (2 * d) ELSE -((2 * (-n) + d) \div (2 * d))

\* Largest root whose square is an Int of the checker.
MaxRoot == 46340

RECURSIVE SqrtIn(_, _, _)
\* The largest r in lo .. hi with r * r <= n.
SqrtIn(n, lo, hi) ==
  IF lo = hi
  THEN lo
  ELSE LET mid == (lo + hi + 1) \div 2
       IN IF mid * mid <= n THEN SqrtIn(n, mid, hi) ELSE SqrtIn(n, lo, mid - 1)

\* The integer nearest to the square root of n.
RoundSqrt(n) ==
  LET r == SqrtIn(n, 0, MaxRoot) IN IF n - r * r <= r THEN r ELSE r + 1

\* -a
FNeg(a) == [a EXCEPT !.v = -@]

\* a + b
FAdd(a, b) ==
  IF a.k = "nan" \/ b.k = "nan" THEN NaN
  ELSE IF a.k = "inf" /\ b.k = "inf"
       THEN IF a.v = b.v THEN a ELSE NaN
  ELSE IF a.k = "inf" THEN a
  ELSE IF b.k = "inf" THEN b
  ELSE Num(a.v + b.v)

\* a - b
FSub(a, b) == FAdd(a, FNeg(b))

\* a * b: 0 times an infinity is NaN.
FMul(a, b) ==
  IF a.k = "nan" \/ b.k = "nan" THEN NaN
  ELSE IF a.k = "inf" \/ b.k = "inf"
       THEN IF a.v = 0 \/ b.v = 0 THEN NaN ELSE Inf(Sign(a) * Sign(b))
  ELSE Num(RoundDiv(a.v * b.v, Scale))

\* a / b: a nonzero number over 0 is an infinity, 0 over 0 is NaN.
FDiv(a, b) ==
  IF a.k = "nan" \/ b.k = "nan" THEN NaN
  ELSE IF a.k = "inf" THEN IF b.k = "inf" THEN NaN
                           ELSE Inf(Sign(a) * Sign(b))
  ELSE IF b.k = "inf" THEN Num(0)
  ELSE IF b.v = 0 THEN IF a.v = 0 THEN NaN ELSE Inf(Sign(a))
  ELSE Num(Sign(a) * Sign(b) * RoundDiv(Abs(a.v) * Scale, Abs(b.v)))

\* sqrtf(a)
sqrtf(a) ==
  IF a.k = "nan" \/ a.v < 0 THEN NaN
  ELSE IF a.k = "inf" THEN a
  ELSE Num(RoundSqrt(a.v * Scale))

\* a == 0.0f
IsZero(a) == a.k = "num" /\ a.v = 0

\* imu.c: static madgwick_t madgwick, before madgwick_init.
InitFilter ==
  /\ filter = [q0 |-> Num(0), q1 |-> Num(0), q2 |-> Num(0), q3 |-> Num(0),
               beta |-> Num(0), sample_freq |-> Num(0)]
  /\ updates = 0
  /\ euler = [roll |-> Num(0), pitch |-> Num(0), yaw |-> Num(0),
              sinp |-> Num(0)]

\* ------------------------------------------------------------- Init
Init ==
  /\ current_mode = MODE_IDLE
  /\ emergency_stop_active = FALSE
  /\ error_count = 0
  /\ last_error = ERROR_NO_ERROR
  /\ my_segment_id = 0
  /\ main_pc = "start"
  /\ pc = [t \in Threads |-> "off"]
  /\ sock = [t \in Threads |-> NoFrame]
  /\ rx = [t \in Threads |-> NoFrame]
  /\ ret = [t \in Threads |-> NoRet]
  /\ pre = [t \in Threads |-> NoSnap]
  /\ handlers = [t \in Threads |-> <<>>]
  /\ shadow = [mode |-> MODE_IDLE, estop |-> FALSE]
  /\ race = NoRace
  /\ build_pc = "idle"
  /\ diag = NoDiag
  /\ held = {}
  /\ current_data = [roll |-> 0, pitch |-> 0, yaw |-> 0, valid |-> FALSE]
  /\ madgwick = 0
  /\ imu_pc = "off"
  /\ reader_pc = "idle"
  /\ pkt_imu = NoAngles
  /\ tx = NoFrame
  /\ InitTmc
  /\ InitFilter

\* ------------------------------------------------------------- main
\* main.c:38  packet_set_segment_id(MY_SEGMENT_ID), MY_SEGMENT_ID being the
\* id this node is built with.
packet_set_segment_id(id) ==
  /\ main_pc = "start"
  /\ my_segment_id' = id
  /\ main_pc' = "wait_net"
  /\ UNCHANGED <<current_mode, emergency_stop_active, error_count,
                 last_error, pc, sock, rx, ret, pre, handlers, shadow>>
  /\ UNCHANGED race
  /\ UNCHANGED <<outside_dispatch, held>>

\* main.c:55-63  network_start_servers() creates both server threads, which
\* go to block in accept()/recv() and recvfrom().
network_start_servers ==
  /\ main_pc = "wait_net"
  /\ main_pc' = "loop"
  /\ pc' = [t \in Threads |-> "recv"]
  /\ UNCHANGED <<sysvars, sock, rx, ret, pre, handlers, shadow>>
  /\ UNCHANGED race
  /\ UNCHANGED <<outside_dispatch, held>>

\* ---------------------------------------------------- the network
\* The frame waiting for or being dispatched by thread u, if any.
InFlight(u) == IF sock[u] # NoFrame THEN sock[u] ELSE rx[u]

\* The master's bytes reach the socket of one delivery path (stream or
\* datagram) whose thread is blocked in recv()/recvfrom(); the other path
\* may have a frame waiting or in dispatch at that moment.
Deliver(t, f) ==
  /\ main_pc = "loop"
  /\ pc[t] = "recv"
  /\ sock[t] = NoFrame
  /\ \A u \in Threads \ {t} :
        InFlight(u) = NoFrame \/ {f, InFlight(u)} \subseteq RaceFrames
  /\ f \notin CountedErrorFrames \/ error_count < MaxErrors
  /\ sock' = [sock EXCEPT ![t] = f]
  /\ race' =
       IF race = NoRace
          /\ \A u \in Threads \ {t} : pc[u] = "recv" /\ sock[u] # NoFrame
       THEN [S0 |-> [mode |-> current_mode, estop |-> emergency_stop_active],
             f |-> [sock EXCEPT ![t] = f],
             left |-> Threads]
       ELSE race
  /\ UNCHANGED <<sysvars, main_pc, pc, rx, ret, pre, handlers, shadow>>
  /\ UNCHANGED <<outside_dispatch, held>>

\* ---------------------------------------------- the server threads
\* recv()/recvfrom() returns ret > 0 bytes in rx_buffer and the thread
\* calls packet_parse_command(rx_buffer, ret).
server_thread_recv(t) ==
  /\ pc[t] = "recv"
  /\ sock[t] # NoFrame
  /\ k_sched_allows(t)
  /\ rx' = [rx EXCEPT ![t] = sock[t]]
  /\ sock' = [sock EXCEPT ![t] = NoFrame]
  /\ pre' = [pre EXCEPT ![t] = Snap]
  /\ handlers' = [handlers EXCEPT ![t] = <<>>]
  /\ ret' = [ret EXCEPT ![t] = NoRet]
  /\ pc' = [pc EXCEPT ![t] = "parse"]
  /\ race' = IF t \in race.left THEN race ELSE NoRace
  /\ UNCHANGED <<sysvars, main_pc, shadow>>
  /\ UNCHANGED <<outside_dispatch, held>>

Return(t, value) ==
  /\ ret' = [ret EXCEPT ![t] = value]
  /\ pc' = [pc EXCEPT ![t] = "returned"]

\* Variant: the case body is entered twice.
Enter_twice(t, name) ==
  handlers' = [handlers EXCEPT ![t] = Append(Append(@, name), name)]

Enter(t, name) == handlers' = [handlers EXCEPT ![t] = Append(@, name)]

\* packet_parse_command lines 30-52: length, magic and CRC tests; each
\* failing test leads to the same three statements (count, record, return).
parse_head_checks(t) ==
  /\ pc[t] = "parse"
  /\ k_sched_allows(t)
  /\ pc' = [pc EXCEPT ![t] =
              IF HeadChecksPass(rx[t]) THEN "switch" ELSE "err_count"]
  /\ UNCHANGED <<sysvars, main_pc, sock, rx, ret, pre, handlers, shadow>>
  /\ UNCHANGED race
  /\ UNCHANGED <<outside_dispatch, held>>

\* The pairs held since the first read of a build in progress, with the
\* pair (e, l) that SystemState holds next.
Hold(e, l) ==
  IF build_pc = "last" THEN held \cup {<<e % UINT16_MOD, l>>} ELSE held

\* error_count++
parse_count_error(t) ==
  /\ pc[t] = "err_count"
  /\ k_sched_allows(t)
  /\ error_count' = (error_count + 1) % UINT16_MOD
  /\ pc' = [pc EXCEPT ![t] = "err_last"]
  /\ UNCHANGED <<current_mode, emergency_stop_active, last_error,
                 my_segment_id, main_pc, sock, rx, ret, pre, handlers,
                 shadow>>
  /\ UNCHANGED race
  /\ held' = Hold(error_count + 1, last_error)
  /\ UNCHANGED outside_dispatch


\* Variant of the error path that also falls back to Idle.
parse_record_error_reset_mode(t) ==
  /\ pc[t] = "err_last"
  /\ k_sched_allows(t)
  /\ last_error' = ERROR_CRC_ERROR
  /\ current_mode' = MODE_IDLE
  /\ ret' = [ret EXCEPT ![t] = -1]
  /\ pc' = [pc EXCEPT ![t] = "returned"]
  /\ UNCHANGED <<emergency_stop_active, error_count, my_segment_id, main_pc,
                 sock, rx, pre, handlers, shadow, race>>
  /\ held' = Hold(error_count, ERROR_CRC_ERROR)
  /\ UNCHANGED outside_dispatch

\* last_error = ERROR_CRC_ERROR; return -1
parse_record_error(t) ==
  /\ pc[t] = "err_last"
  /\ k_sched_allows(t)
  /\ last_error' = ERROR_CRC_ERROR
  /\ Return(t, -1)
  /\ UNCHANGED <<current_mode, emergency_stop_active, error_count,
                 my_segment_id, main_pc, sock, rx, pre, handlers, shadow>>
  /\ UNCHANGED race
  /\ held' = Hold(error_count, ERROR_CRC_ERROR)
  /\ UNCHANGED outside_dispatch

\* Variant of the switch whose JogMotor case runs into the SetMode handler.
parse_switch_jog_as_set_mode(t) ==
  /\ pc[t] = "switch"
  /\ k_sched_allows(t)
  /\ LET data == rx[t]
         length == Len(data)
         packet_type == PktType(data)
     IN CASE packet_type = CMD_TRAJECTORY ->
               IF length = SIZEOF_trajectory_packet_t
               THEN Enter(t, "trajectory") /\ Return(t, packet_type)
               ELSE Return(t, -1) /\ UNCHANGED handlers
          [] packet_type = CMD_EMERGENCY_STOP ->
               IF length = SIZEOF_emergency_stop_packet_t
               THEN /\ Enter(t, "emergency_stop")
                    /\ pc' = [pc EXCEPT ![t] = "estop"]
                    /\ UNCHANGED ret
               ELSE Return(t, -1) /\ UNCHANGED handlers
          [] packet_type = CMD_START_HOMING ->
               IF length = SIZEOF_start_homing_packet_t
               THEN /\ Enter(t, "start_homing")
                    /\ pc' = [pc EXCEPT ![t] = "homing"]
                    /\ UNCHANGED ret
               ELSE Return(t, packet_type) /\ UNCHANGED handlers
          [] packet_type = CMD_JOG_MOTOR ->
               IF length = SIZEOF_jog_motor_packet_t
               THEN /\ Enter(t, "jog_motor")
                    /\ pc' = [pc EXCEPT ![t] = "set_mode"]
                    /\ UNCHANGED ret
               ELSE Return(t, packet_type) /\ UNCHANGED handlers
          [] packet_type = CMD_SET_MODE ->
               IF length = SIZEOF_set_mode_packet_t
               THEN /\ Enter(t, "set_mode")
                    /\ pc' = [pc EXCEPT ![t] = "set_mode"]
                    /\ UNCHANGED ret
               ELSE Return(t, packet_type) /\ UNCHANGED handlers
          [] packet_type = CMD_SET_ZERO_OFFSET ->
               IF length = SIZEOF_set_zero_offset_packet_t
               THEN Enter(t, "set_zero_offset") /\ Return(t, packet_type)
               ELSE Return(t, packet_type) /\ UNCHANGED handlers
          [] OTHER -> Return(t, -1) /\ UNCHANGED handlers
  /\ UNCHANGED <<sysvars, main_pc, sock, rx, pre, shadow>>
  /\ UNCHANGED race
  /\ UNCHANGED <<outside_dispatch, held>>

\* packet_parse_command lines 55-115: switch (packet_type) with the size
\* test of each case.  Cases whose body touches no SystemState (trajectory,
\* jog, zero offset) finish here.
parse_switch(t) ==
  /\ pc[t] = "switch"
  /\ k_sched_allows(t)
  /\ LET data == rx[t]
         length == Len(data)
         packet_type == PktType(data)
     IN CASE packet_type = CMD_TRAJECTORY ->
               IF length = SIZEOF_trajectory_packet_t
               THEN Enter(t, "trajectory") /\ Return(t, packet_type)
               ELSE Return(t, -1) /\ UNCHANGED handlers
          [] packet_type = CMD_EMERGENCY_STOP ->
               IF length = SIZEOF_emergency_stop_packet_t
               THEN /\ Enter(t, "emergency_stop")
                    /\ pc' = [pc EXCEPT ![t] = "estop"]
                    /\ UNCHANGED ret
               ELSE Return(t, -1) /\ UNCHANGED handlers
          [] packet_type = CMD_START_HOMING ->
               IF length = SIZEOF_start_homing_packet_t
               THEN /\ Enter(t, "start_homing")
                    /\ pc' = [pc EXCEPT ![t] = "homing"]
                    /\ UNCHANGED ret
               ELSE Return(t, packet_type) /\ UNCHANGED handlers
          [] packet_type = CMD_JOG_MOTOR ->
               IF length = SIZEOF_jog_motor_packet_t
               THEN Enter(t, "jog_motor") /\ Return(t, packet_type)
               ELSE Return(t, packet_type) /\ UNCHANGED handlers
          [] packet_type = CMD_SET_MODE ->
               IF length = SIZEOF_set_mode_packet_t
               THEN /\ Enter(t, "set_mode")
                    /\ pc' = [pc EXCEPT ![t] = "set_mode"]
                    /\ UNCHANGED ret
               ELSE Return(t, packet_type) /\ UNCHANGED handlers
          [] packet_type = CMD_SET_ZERO_OFFSET ->
               IF length = SIZEOF_set_zero_offset_packet_t
               THEN Enter(t, "set_zero_offset") /\ Return(t, packet_type)
               ELSE Return(t, packet_type) /\ UNCHANGED handlers
          [] OTHER -> Return(t, -1) /\ UNCHANGED handlers
  /\ UNCHANGED <<sysvars, main_pc, sock, rx, pre, shadow>>
  /\ UNCHANGED race
  /\ UNCHANGED <<outside_dispatch, held>>

\* packet_handle_emergency_stop lines 127-128: the target test and
\* emergency_stop_active = true
packet_handle_emergency_stop(t) ==
  /\ pc[t] = "estop"
  /\ k_sched_allows(t)
  /\ IF EStopTargetsMe(PktSegment(rx[t]), my_segment_id)
     THEN /\ emergency_stop_active' = TRUE
          /\ pc' = [pc EXCEPT ![t] = "estop_mode"]
          /\ UNCHANGED ret
     ELSE /\ Return(t, PktType(rx[t]))
          /\ UNCHANGED emergency_stop_active
  /\ UNCHANGED <<current_mode, error_count, last_error, my_segment_id,
                 main_pc, sock, rx, pre, handlers, shadow>>
  /\ UNCHANGED race
  /\ UNCHANGED <<outside_dispatch, held>>

\* packet_handle_emergency_stop line 129: current_mode = MODE_IDLE
emergency_stop_set_idle(t) ==
  /\ pc[t] = "estop_mode"
  /\ k_sched_allows(t)
  /\ current_mode' = MODE_IDLE
  /\ Return(t, PktType(rx[t]))
  /\ UNCHANGED <<emergency_stop_active, error_count, last_error,
                 my_segment_id, main_pc, sock, rx, pre, handlers, shadow>>
  /\ UNCHANGED race
  /\ UNCHANGED <<outside_dispatch, held>>


\* Variant of the StartHoming case that writes the wrong mode constant.
start_homing_wrong_mode(t) ==
  /\ pc[t] = "homing"
  /\ k_sched_allows(t)
  /\ current_mode' = MODE_OPERATION
  /\ ret' = [ret EXCEPT ![t] = PktType(rx[t])]
  /\ pc' = [pc EXCEPT ![t] = "returned"]
  /\ UNCHANGED <<emergency_stop_active, error_count, last_error,
                 my_segment_id, main_pc, sock, rx, pre, handlers, shadow,
                 race>>
  /\ UNCHANGED <<outside_dispatch, held>>

\* packet_parse_command line 84: current_mode = MODE_HOMING
start_homing(t) ==
  /\ pc[t] = "homing"
  /\ k_sched_allows(t)
  /\ current_mode' = MODE_HOMING
  /\ Return(t, PktType(rx[t]))
  /\ UNCHANGED <<emergency_stop_active, error_count, last_error,
                 my_segment_id, main_pc, sock, rx, pre, handlers, shadow>>
  /\ UNCHANGED race
  /\ UNCHANGED <<outside_dispatch, held>>

\* Variant: the mode is stored only for a frame addressed to this node, as
\* packet_handle_emergency_stop does.
packet_handle_set_mode_targeted(t) ==
  /\ pc[t] = "set_mode"
  /\ k_sched_allows(t)
  /\ current_mode' = IF EStopTargetsMe(PktSegment(rx[t]), my_segment_id)
                     THEN PktPayload0(rx[t]) ELSE current_mode
  /\ pc' = [pc EXCEPT ![t] = "set_mode_latch"]
  /\ UNCHANGED <<emergency_stop_active, error_count, last_error,
                 my_segment_id, main_pc, sock, rx, ret, pre, handlers,
                 shadow>>
  /\ UNCHANGED race
  /\ UNCHANGED <<outside_dispatch, held>>

\* packet_handle_set_mode line 159: current_mode = pkt->mode
packet_handle_set_mode(t) ==
  /\ pc[t] = "set_mode"
  /\ k_sched_allows(t)
  /\ current_mode' = PktPayload0(rx[t])
  /\ pc' = [pc EXCEPT ![t] = "set_mode_latch"]
  /\ UNCHANGED <<emergency_stop_active, error_count, last_error,
                 my_segment_id, main_pc, sock, rx, ret, pre, handlers,
                 shadow>>
  /\ UNCHANGED race
  /\ UNCHANGED <<outside_dispatch, held>>


\* Variants of the end of packet_handle_set_mode: the latch is never
\* cleared, and the latch is cleared for every mode byte.
set_mode_keep_latch(t) ==
  /\ pc[t] = "set_mode_latch"
  /\ k_sched_allows(t)
  /\ ret' = [ret EXCEPT ![t] = PktType(rx[t])]
  /\ pc' = [pc EXCEPT ![t] = "returned"]
  /\ UNCHANGED <<sysvars, main_pc, sock, rx, pre, handlers, shadow, race>>
  /\ UNCHANGED <<outside_dispatch, held>>

set_mode_always_clear(t) ==
  /\ pc[t] = "set_mode_latch"
  /\ k_sched_allows(t)
  /\ emergency_stop_active' = FALSE
  /\ ret' = [ret EXCEPT ![t] = PktType(rx[t])]
  /\ pc' = [pc EXCEPT ![t] = "returned"]
  /\ UNCHANGED <<current_mode, error_count, last_error, my_segment_id,
                 main_pc, sock, rx, pre, handlers, shadow, race>>
  /\ UNCHANGED <<outside_dispatch, held>>

\* Variant: SetMode(Operation) also clears the last error.
set_mode_clear_error(t) ==
  /\ pc[t] = "set_mode_latch"
  /\ k_sched_allows(t)
  /\ emergency_stop_active' =
       IF PktPayload0(rx[t]) = MODE_OPERATION THEN FALSE
       ELSE emergency_stop_active
  /\ last_error' =
       IF PktPayload0(rx[t]) = MODE_OPERATION THEN ERROR_NO_ERROR
       ELSE last_error
  /\ Return(t, PktType(rx[t]))
  /\ UNCHANGED <<current_mode, error_count, my_segment_id,
                 main_pc, sock, rx, pre, handlers, shadow>>
  /\ UNCHANGED race
  /\ UNCHANGED <<outside_dispatch, held>>

\* packet_handle_set_mode lines 161-163
set_mode_clear_latch(t) ==
  /\ pc[t] = "set_mode_latch"
  /\ k_sched_allows(t)
  /\ emergency_stop_active' =
       IF PktPayload0(rx[t]) = MODE_OPERATION THEN FALSE
       ELSE emergency_stop_active
  /\ Return(t, PktType(rx[t]))
  /\ UNCHANGED <<current_mode, error_count, last_error, my_segment_id,
                 main_pc, sock, rx, pre, handlers, shadow>>
  /\ UNCHANGED race
  /\ UNCHANGED <<outside_dispatch, held>>

\* ------------------------------------------- serial reference
\* A frame that passes every test of packet_parse_command and reaches the
\* body of its case.
WellFormed(data) ==
  /\ HeadChecksPass(data)
  /\ PktType(data) \in CommandTypes
  /\ Len(data) = SizeOf(PktType(data))

\* The handlers run alone, start to end, on S = (mode, latch).
SerialEffect(S, data, own) ==
  IF ~WellFormed(data) THEN S
  ELSE CASE PktType(data) = CMD_EMERGENCY_STOP ->
              IF EStopTargetsMe(PktSegment(data), own)
              THEN [mode |-> MODE_IDLE, estop |-> TRUE]
              ELSE S
         [] PktType(data) = CMD_START_HOMING ->
              [S EXCEPT !.mode = MODE_HOMING]
         [] PktType(data) = CMD_SET_MODE ->
              [mode |-> PktPayload0(data),
               estop |-> IF PktPayload0(data) = MODE_OPERATION THEN FALSE
                         ELSE S.estop]
         [] OTHER -> S

\* The first test of packet_parse_command that a buffer fails, in the order
\* of the source: length (line 30), magic (line 39), CRC16 (line 47), then
\* the default case of the switch (line 111) and the size test of the case.
RejectCause(data) ==
  IF Len(data) < 6 THEN "TooShort"
  ELSE IF Magic(data) # PACKET_MAGIC_MASTER_TO_STM32 THEN "MagicMismatch"
  ELSE IF ~crc16_verify(data, Len(data)) THEN "ChecksumError"
  ELSE IF PktType(data) \notin CommandTypes THEN "UnknownType"
  ELSE IF Len(data) # SizeOf(PktType(data)) THEN "SizeMismatch"
  ELSE "None"

\* The thread is back in its loop and blocks in recv()/recvfrom() again;
\* rx_buffer and the locals of the finished call are dead.
server_thread_loop(t) ==
  /\ pc[t] = "returned"
  /\ k_sched_allows(t)
  /\ pc' = [pc EXCEPT ![t] = "recv"]
  /\ shadow' = SerialEffect(shadow, rx[t], my_segment_id)
  /\ rx' = [rx EXCEPT ![t] = NoFrame]
  /\ ret' = [ret EXCEPT ![t] = NoRet]
  /\ pre' = [pre EXCEPT ![t] = NoSnap]
  /\ handlers' = [handlers EXCEPT ![t] = <<>>]
  /\ race' = IF race.left \ {t} = {} THEN NoRace
             ELSE [race EXCEPT !.left = @ \ {t}]
  /\ UNCHANGED <<sysvars, main_pc, sock>>
  /\ UNCHANGED <<outside_dispatch, held>>

\* ------------------------------------------- telemetry built by main
\* main() runs at the default, preemptible priority and both server threads
\* at a cooperative (higher) one: main executes only while both are blocked
\* with nothing to receive, and a frame that arrives between two of its
\* statements is dispatched to the end before main executes the next one.
\* packet_build_diagnostics takes no lock.
main_runs ==
  /\ main_pc = "loop"
  /\ \A t \in Threads : pc[t] = "recv" /\ sock[t] = NoFrame

\* main.c:79 calls packet_build_diagnostics; packet.c:228-241: memset and
\* pkt->error_count = error_count
packet_build_diagnostics_count ==
  /\ main_runs
  /\ build_pc = "idle"
  /\ diag' = [NoDiag EXCEPT !.error_count = error_count]
  /\ held' = {<<error_count, last_error>>}
  /\ build_pc' = "last"
  /\ UNCHANGED <<sysvars, main_pc, pc, sock, rx, ret, pre, handlers, shadow,
                 race>>
  /\ UNCHANGED <<tx, devvars>>

\* packet.c:242  pkt->last_error_code = last_error, and the frame is
\* completed
packet_build_diagnostics_last ==
  /\ main_runs
  /\ build_pc = "last"
  /\ diag' = [diag EXCEPT !.last_error_code = last_error]
  /\ build_pc' = "built"
  /\ UNCHANGED <<sysvars, main_pc, pc, sock, rx, ret, pre, handlers, shadow,
                 race, held>>
  /\ UNCHANGED <<tx, devvars>>

\* main.c:82  network_send_tcp(&diag_pkt, sizeof(diag_pkt)); diag_pkt goes
\* out of scope.
network_send_tcp ==
  /\ main_runs
  /\ build_pc = "built"
  /\ diag' = NoDiag
  /\ held' = {}
  /\ build_pc' = "idle"
  /\ UNCHANGED <<sysvars, main_pc, pc, sock, rx, ret, pre, handlers, shadow,
                 race>>
  /\ UNCHANGED <<tx, devvars>>

\* Frames sent to the node while it reports diagnostics.
TelemetryFrames ==
  {Cmd(CMD_EMERGENCY_STOP, BROADCAST_ID, <<1>>),
   Cmd(CMD_START_HOMING, 0, <<1>>),
   Cmd(CMD_SET_MODE, 0, <<MODE_OPERATION>>),
   Cmd(CMD_SET_MODE, 0, <<MODE_IDLE>>),
   Cmd(85, BROADCAST_ID, <<>>),
   Corrupt(Cmd(CMD_SET_MODE, 0, <<MODE_IDLE>>), 4, MODE_OPERATION),
   <<85>>}

\* ------------------------------------------------ imu.c, estimator
\* imu_init: madgwick_init, then current_data.valid = true unless the
\* device is missing or the first sample_fetch fails.
imu_init(ok) ==
  /\ imu_pc \in {"off", "idle"}
  /\ madgwick' = 0
  /\ current_data' = [current_data EXCEPT !.valid = ok]
  /\ imu_pc' = "idle"
  /\ UNCHANGED <<outside_imu, reader_pc, pkt_imu>>

\* imu_update lines 92-134: returns at once when not valid; a failed
\* sample_fetch clears valid; otherwise madgwick_update advances the
\* quaternion.
imu_update(fetch_ok) ==
  /\ imu_pc = "idle"
  /\ current_data.valid
  /\ madgwick < MaxUpdates
  /\ IF fetch_ok
     THEN /\ madgwick' = madgwick + 1
          /\ imu_pc' = "roll"
          /\ UNCHANGED current_data
     ELSE /\ current_data' = [current_data EXCEPT !.valid = FALSE]
          /\ UNCHANGED <<madgwick, imu_pc>>
  /\ UNCHANGED <<outside_imu, reader_pc, pkt_imu>>

\* imu_update lines 137-140, madgwick_get_euler: *roll = ..., *pitch = ...,
\* *yaw = ..., three stores into current_data in this order.
madgwick_get_euler_roll ==
  /\ imu_pc = "roll"
  /\ current_data' = [current_data EXCEPT !.roll = madgwick]
  /\ imu_pc' = "pitch"
  /\ UNCHANGED <<outside_imu, madgwick, reader_pc, pkt_imu>>

madgwick_get_euler_pitch ==
  /\ imu_pc = "pitch"
  /\ current_data' = [current_data EXCEPT !.pitch = madgwick]
  /\ imu_pc' = "yaw"
  /\ UNCHANGED <<outside_imu, madgwick, reader_pc, pkt_imu>>

madgwick_get_euler_yaw ==
  /\ imu_pc = "yaw"
  /\ current_data' = [current_data EXCEPT !.yaw = madgwick]
  /\ imu_pc' = "idle"
  /\ UNCHANGED <<outside_imu, madgwick, reader_pc, pkt_imu>>

\* packet_build_motor_state lines 181, 212-218: memset, then the angles are
\* read if imu_is_valid() and are 0.0f otherwise.
packet_build_motor_state_imu ==
  /\ reader_pc = "idle"
  /\ pkt_imu' = NoAngles
  /\ reader_pc' = IF current_data.valid THEN "roll" ELSE "built"
  /\ UNCHANGED <<outside_imu, current_data, madgwick, imu_pc>>

\* imu_get_orientation: *roll = current_data.roll; *pitch = ...; *yaw = ...
\* Neither imu.c nor packet.c takes a lock around the three loads.
imu_get_orientation_roll ==
  /\ reader_pc = "roll"
  /\ pkt_imu' = [pkt_imu EXCEPT !.roll = current_data.roll]
  /\ reader_pc' = "pitch"
  /\ UNCHANGED <<outside_imu, current_data, madgwick, imu_pc>>

imu_get_orientation_pitch ==
  /\ reader_pc = "pitch"
  /\ pkt_imu' = [pkt_imu EXCEPT !.pitch = current_data.pitch]
  /\ reader_pc' = "yaw"
  /\ UNCHANGED <<outside_imu, current_data, madgwick, imu_pc>>

imu_get_orientation_yaw ==
  /\ reader_pc = "yaw"
  /\ pkt_imu' = [pkt_imu EXCEPT !.yaw = current_data.yaw]
  /\ reader_pc' = "built"
  /\ UNCHANGED <<outside_imu, current_data, madgwick, imu_pc>>

\* The packet is sent and the builder is called again later.
packet_build_motor_state_done ==
  /\ reader_pc = "built"
  /\ reader_pc' = "idle"
  /\ UNCHANGED <<outside_imu, current_data, madgwick, imu_pc, pkt_imu>>

\* ------------------------------------- byte images of the telemetry
\* A 32-bit word is written <<high half, low half>>.  In memory
\* (little-endian Cortex-M7) a uint32_t or float is 4 bytes, lowest first.
LE32(w) == LE16(w[2]) \o LE16(w[1])

\* IEEE-754 single precision bit patterns of 25.0f (0x41C80000) and 30.0f
\* (0x41F00000).
F32_25 == <<16840, 0>>
F32_30 == <<16880, 0>>

\* Bit patterns of the angles that the updates 1, 2, 3, ... compute:
\* 0.1f (0x3DCCCCCD), -pi/2 (0xBFC90FDB), pi (0x40490FDB), and again;
\* update 0 is the initial 0.0f.
AngleBits == <<(<<15820, 52429>>), (<<49097, 4059>>), (<<16457, 4059>>)>>
F32OfAngle(n) == IF n = 0 THEN <<0, 0>> ELSE AngleBits[((n - 1) % 3) + 1]

\* Variant: the CRC16 is stored most significant byte first.
StoreCrc_msb_first(body) ==
  LET crc == crc16_ccitt(65535, body, Len(body))
  IN body \o <<crc \div 256, crc % 256>>

\* pkt->crc16 = crc16_ccitt(0xFFFF, (uint8_t *)pkt, sizeof(*pkt) - 2):
\* body is the packed structure without its last field, and the uint16_t
\* store puts the low byte first.
StoreCrc(body) ==
  LET crc == crc16_ccitt(65535, body, Len(body))
  IN body \o <<crc % 256, crc \div 256>>

\* The diagnostics_packet_t that packet_build_diagnostics leaves in *pkt.
DiagnosticsImage(segment_id, timestamp, errs, last) ==
  StoreCrc(LE16(PACKET_MAGIC_STM32_TO_MASTER)
           \o <<FEEDBACK_DIAGNOSTICS, segment_id>>
           \o LE32(timestamp)
           \o LE32(F32_25) \o LE32(F32_30)
           \o LE16(errs) \o <<last, 10>>)

\* The motor_state_packet_t that packet_build_motor_state leaves in *pkt:
\* the 15 motor fields are 0.0f.
MotorStateImage(segment_id, timestamp, angles, flags) ==
  StoreCrc(LE16(PACKET_MAGIC_STM32_TO_MASTER)
           \o <<FEEDBACK_MOTOR_STATE, segment_id>>
           \o LE32(timestamp)
           \o Zeros(60)
           \o LE32(F32OfAngle(angles.roll))
           \o LE32(F32OfAngle(angles.pitch))
           \o LE32(F32OfAngle(angles.yaw))
           \o <<flags>>)

\* packet_build_diagnostics(pkt, segment_id), k_uptime_get_32() returning
\* timestamp, run without interruption.
packet_build_diagnostics(segment_id, timestamp) ==
  /\ tx = NoFrame
  /\ tx' = DiagnosticsImage(segment_id, timestamp, error_count, last_error)
  /\ UNCHANGED <<sysvars, main_pc, pc, sock, rx, ret, pre, handlers, shadow,
                 race, build_pc, diag, held, devvars>>

\* packet_build_motor_state(pkt, segment_id), run without interruption.
packet_build_motor_state(segment_id, timestamp) ==
  /\ tx = NoFrame
  /\ tx' = MotorStateImage(segment_id, timestamp,
                           IF current_data.valid
                           THEN [roll |-> current_data.roll,
                                 pitch |-> current_data.pitch,
                                 yaw |-> current_data.yaw]
                           ELSE NoAngles,
                           packet_get_status_flags)
  /\ UNCHANGED <<sysvars, main_pc, pc, sock, rx, ret, pre, handlers, shadow,
                 race, build_pc, diag, held, devvars>>

\* network_send_udp / network_send_tcp: the bytes are handed to the socket
\* and the packet buffer is reused.
network_send_packet ==
  /\ tx # NoFrame
  /\ tx' = NoFrame
  /\ UNCHANGED <<sysvars, main_pc, pc, sock, rx, ret, pre, handlers, shadow,
                 race, build_pc, diag, held, devvars>>

\* Values of k_uptime_get_32() and of the segment_id argument.
Timestamps == {<<0, 0>>, <<4660, 22136>>, <<65535, 65535>>}
BuildSegIds == {0, 3, BROADCAST_ID}

\* SystemState and orientation as the builders may find them.
BuildModes == {0, MODE_IDLE, MODE_HOMING, MODE_OPERATION}
BuildErrorCounts == {0, 1, 258, UINT16_MOD - 1}
BuildOrientations ==
  {[roll |-> 0, pitch |-> 0, yaw |-> 0, valid |-> FALSE],
   [roll |-> 1, pitch |-> 1, yaw |-> 1, valid |-> TRUE],
   [roll |-> 3, pitch |-> 2, yaw |-> 2, valid |-> TRUE],
   [roll |-> 3, pitch |-> 3, yaw |-> 3, valid |-> FALSE]}

InitBuild ==
  /\ current_mode \in BuildModes
  /\ emergency_stop_active \in BOOLEAN
  /\ emergency_stop_active => current_mode # MODE_OPERATION
  /\ error_count \in BuildErrorCounts
  /\ last_error \in {ERROR_NO_ERROR, ERROR_CRC_ERROR}
  /\ last_error = ERROR_CRC_ERROR \/ error_count = 0
  /\ my_segment_id = 0
  /\ main_pc = "loop"
  /\ pc = [t \in Threads |-> "recv"]
  /\ sock = [t \in Threads |-> NoFrame]
  /\ rx = [t \in Threads |-> NoFrame]
  /\ ret = [t \in Threads |-> NoRet]
  /\ pre = [t \in Threads |-> NoSnap]
  /\ handlers = [t \in Threads |-> <<>>]
  /\ shadow = [mode |-> current_mode, estop |-> emergency_stop_active]
  /\ race = NoRace
  /\ build_pc = "idle"
  /\ diag = NoDiag
  /\ held = {}
  /\ current_data \in BuildOrientations
  /\ madgwick = current_data.roll
  /\ imu_pc = "idle"
  /\ reader_pc = "idle"
  /\ pkt_imu = NoAngles
  /\ tx = NoFrame
  /\ InitTmc
  /\ InitFilter

\* ------------------------------------------ TMC9660 driver, calls
\* tmc9660_transact: the request is sent, then the value returned follows
\* from the reply (uart_recv, CRC8 test, status test, in this order).
\* Variant: the CRC8 of the reply is not tested.
tmc9660_transact_crc_unchecked(outcome) ==
  CASE outcome = "timeout" -> -ETIMEDOUT
    [] outcome = "status" -> -EIO
    [] OTHER -> 0

tmc9660_transact(outcome) ==
  CASE outcome = "timeout" -> -ETIMEDOUT
    [] outcome = "crc" -> -EBADMSG
    [] outcome = "status" -> -EIO
    [] OTHER -> 0

\* Variant: the bank is sent on every call.
BankCached_never(inst, bank) == FALSE

\* tmc9660_set_bank: if (inst->state.current_bank == bank)
BankCached(inst, bank) == inst.current_bank = bank

\* Variant: the cached bank is never updated.
CacheBank_never(inst, bank, r) == inst

\* tmc9660_set_bank: if (ret == 0) inst->state.current_bank = bank
CacheBank(inst, bank, r) ==
  IF r = 0 THEN [inst EXCEPT !.current_bank = bank] ELSE inst

\* The bank and the address that the call of thread c asks for: its own
\* argument, or what tmc9660_read_config passes on.
Composite(op) == op \in {"read_config", "write_config"}

BankArg(c) ==
  IF Composite(call[c].op) THEN TMC9660_BANK_CONFIG ELSE call[c].arg

AddrArg(c) ==
  IF Composite(call[c].op) THEN TMC9660_CONFIG_BASE_ADDR + call[c].arg
  ELSE call[c].arg

\* The last step of a composite call.
LastStep(c) == IF call[c].op = "write_config" THEN "write_32" ELSE "read_32"

\* A step of the call of thread c returned r: a composite call goes on to
\* its next step only if r is 0.
\* Variant: a composite call goes on whatever its step returned.
After_continue(c, r, next) ==
  IF Composite(call[c].op) THEN next ELSE "return"

After(c, r, next) ==
  IF Composite(call[c].op) /\ r = 0 THEN next ELSE "return"

\* tmc9660_transact stores the reply value through reply_value once the
\* CRC8 test has passed, before it tests the status.
ReplyStored(outcome) == outcome \in {"ok", "status"}

\* Variant: the cached address is updated whatever the transaction returned.
CacheAddr_always(inst, addr, r) == [inst EXCEPT !.current_addr = addr]

\* tmc9660_set_address: if (ret == 0) inst->state.current_addr = addr
CacheAddr(inst, addr, r) ==
  IF r = 0 THEN [inst EXCEPT !.current_addr = addr] ELSE inst

\* Variant: only the range of the offset is tested.
OffsetValid_range_only(offset) == offset < TMC9660_CONFIG_SIZE

\* tmc9660_read_config, tmc9660_write_config:
\* !(offset >= TMC9660_CONFIG_SIZE) and !(offset & 0x03)
OffsetValid(offset) == offset < TMC9660_CONFIG_SIZE /\ offset % 4 = 0

\* The first step of a call.
FirstStep(op) ==
  CASE op = "set_address" -> "set_address"
    [] op = "read_32" -> "read_32"
    [] op = "write_32" -> "write_32"
    [] OTHER -> "set_bank"

\* A thread calls tmc9660_set_bank, tmc9660_set_address, tmc9660_read_32,
\* tmc9660_write_32, tmc9660_read_config or tmc9660_write_config; the last
\* two return -EINVAL at once for an offset that is too large or not
\* aligned.
tmc9660_call(c, op, m, arg, value) ==
  /\ tpc[c] = "idle"
  /\ LET bad == Composite(op) /\ ~OffsetValid(arg)
     IN /\ call' = [call EXCEPT ![c] =
                      [op |-> op, motor |-> m, arg |-> arg, value |-> value,
                       sent |-> <<>>, rets |-> <<>>,
                       ret |-> IF bad THEN -EINVAL ELSE NoRet,
                       out |-> NoValue,
                       bank0 |-> motors[m].current_bank,
                       addr0 |-> motors[m].current_addr,
                       ready0 |-> motors[m].initialized]]
        /\ tpc' = [tpc EXCEPT ![c] = IF bad THEN "return" ELSE FirstStep(op)]
  /\ UNCHANGED <<outside_call, motors, done>>

\* tmc9660_set_bank, from k_mutex_lock to k_mutex_unlock
set_bank_locked(c, outcome) ==
  /\ tpc[c] = "set_bank"
  /\ LET m == call[c].motor
         bank == BankArg(c)
     IN IF BankCached(motors[m], bank)
        THEN /\ call' = [call EXCEPT ![c].ret = 0]
             /\ tpc' = [tpc EXCEPT ![c] = After(c, 0, "set_address")]
             /\ UNCHANGED motors
        ELSE LET r == tmc9660_transact(outcome)
             IN /\ call' = [call EXCEPT
                             ![c].sent = Append(@, <<TMC9660_CMD_SET_BANK, bank>>),
                             ![c].rets = Append(@, r),
                             ![c].ret = r]
                /\ motors' = [motors EXCEPT ![m] = CacheBank(@, bank, r)]
                /\ tpc' = [tpc EXCEPT ![c] = After(c, r, "set_address")]
  /\ UNCHANGED <<outside_chip, done>>

\* tmc9660_set_bank with a chip whose replies are not constrained.
tmc9660_set_bank(c, outcome) ==
  set_bank_locked(c, outcome) /\ UNCHANGED chip

\* tmc9660_set_address, from k_mutex_lock to k_mutex_unlock
set_address_locked(c, outcome) ==
  /\ tpc[c] = "set_address"
  /\ LET m == call[c].motor
         addr == AddrArg(c)
         r == tmc9660_transact(outcome)
     IN /\ call' = [call EXCEPT
                     ![c].sent = Append(@, <<TMC9660_CMD_SET_ADDRESS, addr>>),
                     ![c].rets = Append(@, r),
                     ![c].ret = r]
        /\ motors' = [motors EXCEPT ![m] = CacheAddr(@, addr, r)]
        /\ tpc' = [tpc EXCEPT ![c] = After(c, r, LastStep(c))]
  /\ UNCHANGED <<outside_chip, done>>

\* tmc9660_set_address with a chip whose replies are not constrained.
tmc9660_set_address(c, outcome) ==
  set_address_locked(c, outcome) /\ UNCHANGED chip

\* tmc9660_read_32, from k_mutex_lock to k_mutex_unlock; value is the value
\* field of the reply frame.
read_32_locked(c, outcome, value) ==
  /\ tpc[c] = "read_32"
  /\ LET r == tmc9660_transact(outcome)
     IN /\ call' = [call EXCEPT
                     ![c].sent = Append(@, <<TMC9660_CMD_READ_32, 0>>),
                     ![c].rets = Append(@, r),
                     ![c].ret = r,
                     ![c].out = IF ReplyStored(outcome) THEN value ELSE @]
        /\ tpc' = [tpc EXCEPT ![c] = "return"]
  /\ UNCHANGED <<outside_chip, motors, done>>

\* tmc9660_read_32 with a chip whose replies are not constrained.
tmc9660_read_32(c, outcome, value) ==
  read_32_locked(c, outcome, value) /\ UNCHANGED chip

\* tmc9660_write_32, from k_mutex_lock to k_mutex_unlock; the reply value
\* goes to a local of tmc9660_write_32.
write_32_locked(c, outcome) ==
  /\ tpc[c] = "write_32"
  /\ LET r == tmc9660_transact(outcome)
     IN /\ call' = [call EXCEPT
                     ![c].sent =
                        Append(@, <<TMC9660_CMD_WRITE_32, call[c].value>>),
                     ![c].rets = Append(@, r),
                     ![c].ret = r]
        /\ tpc' = [tpc EXCEPT ![c] = "return"]
  /\ UNCHANGED <<outside_chip, motors, done>>

\* tmc9660_write_32 with a chip whose replies are not constrained.
tmc9660_write_32(c, outcome) ==
  write_32_locked(c, outcome) /\ UNCHANGED chip

\* The call returns call[c].ret to the thread.
tmc9660_return(c) ==
  /\ tpc[c] = "return"
  /\ done' = call[c]
  /\ call' = [call EXCEPT ![c] = NoCall]
  /\ tpc' = [tpc EXCEPT ![c] = "idle"]
  /\ UNCHANGED <<outside_call, motors>>

\* ------------------------------------ TMC9660 driver, the chip on the line
\* The chip executes a request whose reply the driver accepts, and none that
\* it answers with another status; a request whose reply is lost, late or
\* damaged it may have executed or not.
Executes(outcome, executed) ==
  /\ outcome = "ok" => executed
  /\ outcome = "status" => ~executed

\* The chip after a transaction of tmc9660_transact: failed remembers that
\* some transaction on the line did not return 0.
ChipAfter(m, outcome, executed, field, x) ==
  LET c1 == IF executed THEN [chip EXCEPT ![m][field] = x] ELSE chip
  IN [c1 EXCEPT ![m].failed = @ \/ outcome # "ok"]

\* tmc9660_set_bank and the chip: SET_BANK selects the bank.
chip_set_bank(c, outcome, executed) ==
  /\ set_bank_locked(c, outcome)
  /\ Executes(outcome, executed)
  /\ LET m == call[c].motor
     IN chip' = IF BankCached(motors[m], BankArg(c)) THEN chip
                ELSE ChipAfter(m, outcome, executed, "bank", BankArg(c))

\* tmc9660_set_address and the chip: SET_ADDRESS loads the address register.
chip_set_address(c, outcome, executed) ==
  /\ set_address_locked(c, outcome)
  /\ Executes(outcome, executed)
  /\ chip' = ChipAfter(call[c].motor, outcome, executed, "addr", AddrArg(c))

\* tmc9660_read_32 and the chip: READ_32 replies with the word at the address
\* register.
chip_read_32(c, outcome) ==
  LET m == call[c].motor
  IN /\ read_32_locked(c, outcome,
                       IF outcome = "ok" THEN chip[m].mem[chip[m].addr] ELSE 0)
     /\ chip' = ChipAfter(m, outcome, FALSE, "addr", 0)

\* tmc9660_write_32 and the chip: WRITE_32 stores the value at the address
\* register.
chip_write_32(c, outcome, executed) ==
  LET m == call[c].motor
  IN /\ write_32_locked(c, outcome)
     /\ Executes(outcome, executed)
     /\ chip' = ChipAfter(m, outcome, executed, "mem",
                          [chip[m].mem EXCEPT ![chip[m].addr] = call[c].value])

\* Arguments of the calls.
CallBanks == {TMC9660_BANK_CONFIG, TMC9660_BANK_OTP, BANK_INVALID}
CallOffsets == {4, 8, 6, TMC9660_CONFIG_SIZE}
CallMotors == {"A", "B"}
CallValues == {7}
ReplyValues == {0, 9}

\* --------------------------------------------- TMC9660 driver, init
\* The instances in the order of tmc9660_motor_id_t.
MotorSeq == <<"A", "B", "C">>

\* Variant: any chip type is accepted.
ChipTypeOk_any(value) == TRUE

\* tmc9660_init: !(value != TMC9660_CHIP_TYPE_EXPECTED)
ChipTypeOk(value) == value = TMC9660_CHIP_TYPE_EXPECTED

\* The GET_INFO request of tmc9660_init for an info selector.
GetInfo(selector) == <<TMC9660_CMD_GET_INFO, selector>>

\* k_mutex_unlock(&inst->mutex) by thread c: the mutex goes to the first
\* waiter or is free; -EPERM and no change if c does not own it.
Unlocked(c, m) ==
  LET q == mutex[m].wait_q
  IN IF mutex[m].owner # c THEN mutex
     ELSE IF q = <<>> THEN [mutex EXCEPT ![m].owner = "none"]
     ELSE [mutex EXCEPT ![m] = [owner |-> Head(q), wait_q |-> Tail(q)]]

\* The threads after k_mutex_unlock by thread c, which goes on at next: the
\* waiter that got the mutex is ready.
Woken(c, m, next) ==
  LET q == mutex[m].wait_q
  IN IF mutex[m].owner # c \/ q = <<>> THEN [tpc EXCEPT ![c] = next]
     ELSE [tpc EXCEPT ![c] = next, ![Head(q)] = "locked"]

\* tmc9660_init up to the first tmc9660_transact: k_mutex_init, k_mutex_lock,
\* the UART device of the instance, k_sleep; -ENODEV after k_mutex_unlock if
\* the device is not ready.
tmc9660_init_enter(c, m, ready) ==
  /\ tpc[c] = "idle"
  /\ call' = [call EXCEPT ![c] =
                [NoCall EXCEPT !.op = "init", !.motor = m,
                               !.ret = IF ready THEN NoRet ELSE -ENODEV,
                               !.bank0 = motors[m].current_bank,
                               !.addr0 = motors[m].current_addr,
                               !.ready0 = motors[m].initialized]]
  /\ mutex' = [mutex EXCEPT ![m] =
                 [owner |-> IF ready THEN c ELSE "none", wait_q |-> <<>>]]
  /\ tpc' = [tpc EXCEPT ![c] = IF ready THEN "chip_type" ELSE "return"]
  /\ UNCHANGED <<outside_tmc, motors, done, linkvars>>

\* A thread calls tmc9660_init.
tmc9660_init(c, m, ready) ==
  /\ init_all.pc = "idle"
  /\ tmc9660_init_enter(c, m, ready)
  /\ UNCHANGED init_all

\* tmc9660_init: the chip type is read and tested.
tmc9660_init_chip_type(c, outcome, value) ==
  /\ tpc[c] = "chip_type"
  /\ LET m == call[c].motor
         r == tmc9660_transact(outcome)
         good == r = 0 /\ ChipTypeOk(value)
     IN /\ call' = [call EXCEPT
                     ![c].sent = Append(@, GetInfo(TMC9660_INFO_CHIP_TYPE)),
                     ![c].rets = Append(@, r),
                     ![c].out = IF ReplyStored(outcome) THEN value ELSE @,
                     ![c].ret = IF r < 0 THEN r
                                ELSE IF good THEN NoRet ELSE -ENODEV]
        /\ motors' = [motors EXCEPT ![m].chip_type = IF r = 0 THEN value ELSE @]
        /\ mutex' = IF good THEN mutex ELSE Unlocked(c, m)
        /\ tpc' = IF good THEN [tpc EXCEPT ![c] = "chip_version"]
                   ELSE Woken(c, m, "return")
  /\ UNCHANGED <<outside_tmc, done, linkvars, init_all>>

\* tmc9660_init: the chip version is read, and kept if (ret == 0).
tmc9660_init_chip_version(c, outcome, value) ==
  /\ tpc[c] = "chip_version"
  /\ LET m == call[c].motor
         r == tmc9660_transact(outcome)
     IN /\ call' = [call EXCEPT
                     ![c].sent = Append(@, GetInfo(TMC9660_INFO_CHIP_VERSION)),
                     ![c].rets = Append(@, r)]
        /\ motors' = [motors EXCEPT
                       ![m].chip_version = IF r = 0 THEN value ELSE @]
        /\ tpc' = [tpc EXCEPT ![c] = "bl_version"]
  /\ UNCHANGED <<outside_tmc, done, mutex, linkvars, init_all>>

\* tmc9660_init: the bootloader version is read, and kept if (ret == 0);
\* the instance is marked initialized, the mutex unlocked, 0 returned.
tmc9660_init_bl_version(c, outcome, value) ==
  /\ tpc[c] = "bl_version"
  /\ LET m == call[c].motor
         r == tmc9660_transact(outcome)
     IN /\ call' = [call EXCEPT
                     ![c].sent = Append(@, GetInfo(TMC9660_INFO_BL_VERSION)),
                     ![c].rets = Append(@, r),
                     ![c].ret = 0]
        /\ motors' = [motors EXCEPT
                       ![m].bootloader_version = IF r = 0 THEN value ELSE @,
                       ![m].initialized = TRUE]
        /\ mutex' = Unlocked(c, m)
        /\ tpc' = Woken(c, m, "return")
  /\ UNCHANGED <<outside_tmc, done, linkvars, init_all>>

\* Variant: one instance initialized is enough.
InitAllResult_one_is_enough(success_count) ==
  IF success_count >= 1 THEN 0 ELSE -ENODEV

\* tmc9660_init_all: -ENODEV if (success_count == 0), then
\* (success_count == TMC9660_NUM_MOTORS) ? 0 : -ENODEV
InitAllResult(success_count) ==
  IF success_count = Len(MotorSeq) THEN 0 ELSE -ENODEV

\* tmc9660_init returns to its caller, which is tmc9660_init_all when that
\* is in its loop: if (ret == 0) success_count++, then i++.
tmc9660_init_return(c) ==
  /\ tpc[c] = "return"
  /\ call[c].op = "init"
  /\ call' = [call EXCEPT ![c] = NoCall]
  /\ tpc' = [tpc EXCEPT ![c] = "idle"]
  /\ init_all' =
       IF init_all.pc = "call"
       THEN [init_all EXCEPT
               !.pc = "loop",
               !.i = @ + 1,
               !.success_count = IF call[c].ret = 0 THEN @ + 1 ELSE @,
               !.each = Append(@, call[c].ret)]
       ELSE init_all
  /\ UNCHANGED <<outside_tmc, motors, done, mutex, linkvars>>

\* tmc9660_init_all is entered: success_count = 0, i = 0.
tmc9660_init_all ==
  /\ init_all.pc = "idle"
  /\ tpc["app"] = "idle"
  /\ init_all' = [NoInitAll EXCEPT !.pc = "loop"]
  /\ UNCHANGED <<outside_tmc, tmcvars, mutex, linkvars>>

\* tmc9660_init_all: the loop test; tmc9660_init on the next instance, or
\* the value to return after the last.
tmc9660_init_all_loop(ready) ==
  /\ init_all.pc = "loop"
  /\ IF init_all.i < Len(MotorSeq)
     THEN /\ tmc9660_init_enter("app", MotorSeq[init_all.i + 1], ready)
          /\ init_all' = [init_all EXCEPT !.pc = "call"]
     ELSE /\ init_all' =
               [init_all EXCEPT
                  !.pc = "return",
                  !.ret = InitAllResult(init_all.success_count)]
          /\ UNCHANGED <<outside_tmc, tmcvars, mutex, linkvars>>

\* tmc9660_init_all returns init_all.ret.
tmc9660_init_all_return ==
  /\ init_all.pc = "return"
  /\ init_all' = NoInitAll
  /\ UNCHANGED <<outside_tmc, tmcvars, mutex, linkvars>>

\* Values of the chip type and of the two versions in a reply.
ChipTypes == {TMC9660_CHIP_TYPE_EXPECTED, 0}
Versions == {3}

\* ------------------------------------- TMC9660 driver, serial line
\* Units of uptime between the sending of a request and the deadline of
\* uart_recv (K_MSEC(TMC9660_REPLY_TIMEOUT_MS), scaled down).
ReplyTimeout == 2

\* tmc9660_crc8, the inner loop: one shift of the 8-bit register.
tmc9660_crc8_shift(crc) ==
  IF crc >= 128 THEN Xor((crc * 2) % 256, 7) ELSE crc * 2

\* The inner loop, j shifts; each value is computed before it is passed on.
RECURSIVE tmc9660_crc8_shifts(_, _)
tmc9660_crc8_shifts(crc, j) ==
  IF j = 0 THEN crc
  ELSE LET next == tmc9660_crc8_shift(crc)
       IN IF next >= 0 THEN tmc9660_crc8_shifts(next, j - 1) ELSE 0

\* crc ^= data[i] for each pair of bytes, and the eight shifts that follow
\* for each value of crc, tabulated.
Xor8 == [a \in 0 .. 255 |-> [b \in 0 .. 255 |-> Xor(a, b)]]

Crc8Shifted == [crc \in 0 .. 255 |-> tmc9660_crc8_shifts(crc, 8)]

\* tmc9660_crc8(data, len)
RECURSIVE tmc9660_crc8(_, _)
tmc9660_crc8(data, len) ==
  IF len = 0 THEN 0
  ELSE Crc8Shifted[Xor8[tmc9660_crc8(data, len - 1)][data[len]]]

\* unpack_u32_msb(src)
unpack_u32_msb(src) ==
  src[1] * 16777216 + src[2] * 65536 + src[3] * 256 + src[4]

\* A reply frame as the device builds it: host address, device address,
\* status, value, CRC8 of the seven bytes before.
ReplyMsg(status, data) ==
  LET body == <<TMC9660_DEFAULT_HOST_ADDR, TMC9660_DEFAULT_DEVICE_ADDR,
                status>> \o data
  IN body \o <<tmc9660_crc8(body, TMC9660_MSG_SIZE - 1)>>

\* A frame damaged on the line: its byte at index i (from 0) changed.
Damaged(f, i) == [f EXCEPT ![i + 1] = Xor8[@][32]]

\* The frames the device can put on the line, and the number of bytes of a
\* frame that get through before the line goes quiet.
ReplyMsgs ==
  {ReplyMsg(TMC9660_STATUS_OK, <<84, 77, 0, 1>>),
   ReplyMsg(TMC9660_STATUS_OK, <<1, 2, 3, 4>>),
   ReplyMsg(TMC9660_STATUS_BUSY, <<0, 0, 1, 9>>),
   Damaged(ReplyMsg(TMC9660_STATUS_OK, <<84, 77, 0, 1>>), 7),
   Damaged(ReplyMsg(TMC9660_STATUS_BUSY, <<0, 0, 1, 9>>), 4),
   Damaged(ReplyMsg(TMC9660_STATUS_OK, <<1, 2, 3, 4>>), 2)}

ReplyLengths == {0, 3, TMC9660_MSG_SIZE - 1, TMC9660_MSG_SIZE}

\* Variant: the CRC8 of the reply is taken as good.
CrcGood_always(msg) == TRUE

\* tmc9660_transact: !(reply.crc8 != expected_crc)
CrcGood(msg) ==
  msg[TMC9660_MSG_SIZE] = tmc9660_crc8(msg, TMC9660_MSG_SIZE - 1)

\* A thread enters tmc9660_get_info on instance A; status_ptr tells whether
\* this build of the driver hands tmc9660_transact a reply_status pointer.
tmc9660_get_info(c, status_ptr) ==
  /\ tpc[c] = "idle"
  /\ call' = [call EXCEPT ![c] =
                [NoCall EXCEPT !.op = "get_info", !.motor = "A",
                               !.arg = TMC9660_INFO_CHIP_TYPE,
                               !.value = IF status_ptr THEN 1 ELSE 0]]
  /\ tpc' = [tpc EXCEPT ![c] = "lock"]
  /\ UNCHANGED <<outside_link, motors, done, mutex, linkvars>>

\* Variant: one mutex for all the instances.
LockOf_shared(m) == "A"

\* &inst->mutex with inst = &motors[motor]: each instance has its own.
LockOf(m) == m

\* k_mutex_lock(&inst->mutex, K_FOREVER): the thread takes the free mutex
\* or pends on its wait queue.
k_mutex_lock(c) ==
  /\ tpc[c] = "lock"
  /\ LET m == LockOf(call[c].motor)
     IN IF mutex[m].owner = "none"
        THEN /\ mutex' = [mutex EXCEPT ![m].owner = c]
             /\ tpc' = [tpc EXCEPT ![c] = "locked"]
        ELSE /\ mutex' = [mutex EXCEPT ![m].wait_q = Append(@, c)]
             /\ tpc' = [tpc EXCEPT ![c] = "pend"]
  /\ UNCHANGED <<outside_link, motors, call, done, linkvars>>

\* k_mutex_unlock(&inst->mutex) and the return of the API call.
k_mutex_unlock(c) ==
  /\ tpc[c] = "unlock"
  /\ LET m == LockOf(call[c].motor)
     IN /\ mutex' = Unlocked(c, m)
        /\ tpc' = Woken(c, m, "idle")
  /\ call' = [call EXCEPT ![c] = NoCall]
  /\ UNCHANGED <<outside_link, motors, done, linkvars>>

\* tmc9660_transact up to the call of uart_recv: the request is built and
\* sent (uart_send returns 0), end_time is computed; the device drops what
\* it had still to send and will put the first n bytes of msg on the line,
\* which answer keeps.
\* A byte left in the receiver stays there.
transact_send(c, msg, n) ==
  /\ tpc[c] = "locked"
  /\ xpc = "idle"
  /\ tpc' = [tpc EXCEPT ![c] = "transact"]
  /\ xpc' = "poll"
  /\ xact' = [NoTransact EXCEPT !.cmd = TMC9660_CMD_GET_INFO,
                                !.req_value = call[c].arg,
                                !.status_ptr = (call[c].value = 1),
                                !.requests = 1,
                                !.answer = SubSeq(msg, 1, n)]
  /\ wire' = SubSeq(msg, 1, n)
  /\ reply' = <<>>
  /\ uptime' = 0
  /\ end_time' = ReplyTimeout
  /\ UNCHANGED <<outside_link, motors, call, done, mutex, uart_rx>>

\* The device puts its next byte on the line. The receiver holds one byte:
\* a byte that arrives while it is full is lost (overrun). This happens
\* once uart_recv has stopped polling; a reply that loses bytes while it is
\* polled for is one of the shorter replies of ReplyLengths.
device_byte ==
  /\ wire # <<>>
  /\ xpc \in {"poll", "sleep"} => uart_rx = <<>>
  /\ uart_rx' = IF uart_rx = <<>> THEN <<Head(wire)>> ELSE uart_rx
  /\ wire' = Tail(wire)
  /\ UNCHANGED <<outside_link, tmcvars, mutex, xpc, xact, reply, uptime,
                 end_time>>

\* uart_recv: uart_poll_in(uart, &data[i]) returns 0 and the loop goes to
\* the next i, or returns 0 from uart_recv after the last.
uart_poll_in_byte ==
  /\ xpc = "poll"
  /\ uart_rx # <<>>
  /\ reply' = Append(reply, Head(uart_rx))
  /\ uart_rx' = Tail(uart_rx)
  /\ xpc' = IF Len(reply') = TMC9660_MSG_SIZE THEN "verify" ELSE "poll"
  /\ UNCHANGED <<outside_link, tmcvars, mutex, xact, wire, uptime, end_time>>

\* Variant: the deadline is never found reached.
Expired_never(now, deadline) == FALSE

\* uart_recv: k_uptime_get() >= end_time
Expired(now, deadline) == now >= deadline

\* uart_recv: uart_poll_in finds no byte; if (k_uptime_get() >= end_time)
\* return -ETIMEDOUT, which tmc9660_transact returns; else k_sleep.
uart_poll_in_none ==
  /\ xpc = "poll"
  /\ uart_rx = <<>>
  /\ IF Expired(uptime, end_time)
     THEN /\ xact' = [xact EXCEPT !.ret = -ETIMEDOUT]
          /\ xpc' = "returned"
     ELSE /\ xpc' = "sleep"
          /\ UNCHANGED xact
  /\ UNCHANGED <<outside_link, tmcvars, mutex, wire, uart_rx, reply, uptime,
                 end_time>>

\* uart_recv: k_sleep(K_USEC(100)) returns; the uptime has grown by d. Uptime
\* past end_time is never told from end_time, so it is not counted.
k_sleep(d) ==
  /\ xpc = "sleep"
  /\ uptime + d <= end_time
  /\ uptime' = uptime + d
  /\ xpc' = "poll"
  /\ UNCHANGED <<outside_link, tmcvars, mutex, xact, wire, uart_rx, reply,
                 end_time>>

\* tmc9660_transact after uart_recv returned 0: CRC8 test, the two stores,
\* status test.
transact_verify ==
  /\ xpc = "verify"
  /\ xact' =
       IF ~CrcGood(reply) THEN [xact EXCEPT !.ret = -EBADMSG]
       ELSE [xact EXCEPT
               !.reply_value = unpack_u32_msb(SubSeq(reply, 4, 7)),
               !.reply_status = IF xact.status_ptr THEN reply[3] ELSE @,
               !.ret = IF reply[3] # TMC9660_STATUS_OK THEN -EIO ELSE 0]
  /\ xpc' = "returned"
  /\ UNCHANGED <<outside_link, tmcvars, mutex, wire, uart_rx, reply, uptime,
                 end_time>>

\* tmc9660_transact has returned: tmc9660_get_info goes to k_mutex_unlock
\* with ret and with *value as tmc9660_transact left it; the locals of
\* tmc9660_transact and uart_recv are gone.
transact_return(c) ==
  /\ tpc[c] = "transact"
  /\ xpc = "returned"
  /\ call' = [call EXCEPT ![c].ret = xact.ret,
                          ![c].out = xact.reply_value]
  /\ tpc' = [tpc EXCEPT ![c] = "unlock"]
  /\ xpc' = "idle"
  /\ xact' = NoTransact
  /\ reply' = <<>>
  /\ uptime' = 0
  /\ end_time' = 0
  /\ UNCHANGED <<outside_link, motors, done, mutex, wire, uart_rx>>

\* ----------------------------------------------------- madgwick.h
\* Number of madgwick_update calls followed.
MaxCalls == 3

\* imu.c: IMU_SAMPLE_FREQ 100.0f
IMU_SAMPLE_FREQ == Lit(100)

\* imu.c: MADGWICK_BETA 0.1f
MADGWICK_BETA == Num(Scale \div 10)

\* madgwick_init(m, sample_freq, beta), which imu_init calls before the
\* first imu_update.
madgwick_init(sample_freq, beta) ==
  /\ updates = 0
  /\ filter' = [q0 |-> Lit(1), q1 |-> Lit(0), q2 |-> Lit(0), q3 |-> Lit(0),
                beta |-> beta, sample_freq |-> sample_freq]
  /\ updates' = 0
  /\ UNCHANGED <<packetvars, imuvars, tmcvars, mutex, linkvars, init_all,
                 euler, chip>>

\* The sum of the four terms.
FSum4(a, b, c, d) == FAdd(FAdd(FAdd(a, b), c), d)

\* The quaternion madgwick_update leaves in m, from gyroscope g and
\* accelerometer a0.
Updated(f, g, a0) ==
  LET half == Num(Scale \div 2)
      q0 == f.q0
      q1 == f.q1
      q2 == f.q2
      q3 == f.q3
      gx == g[1]
      gy == g[2]
      gz == g[3]
      gyro1 == FMul(half, FSub(FSub(FMul(FNeg(q1), gx), FMul(q2, gy)),
                               FMul(q3, gz)))
      gyro2 == FMul(half, FSub(FAdd(FMul(q0, gx), FMul(q2, gz)),
                               FMul(q3, gy)))
      gyro3 == FMul(half, FAdd(FSub(FMul(q0, gy), FMul(q1, gz)),
                               FMul(q3, gx)))
      gyro4 == FMul(half, FSub(FAdd(FMul(q0, gz), FMul(q1, gy)),
                               FMul(q2, gx)))
      valid == ~(IsZero(a0[1]) /\ IsZero(a0[2]) /\ IsZero(a0[3]))
      a_norm == FDiv(Lit(1), sqrtf(FAdd(FAdd(FMul(a0[1], a0[1]),
                                             FMul(a0[2], a0[2])),
                                        FMul(a0[3], a0[3]))))
      ax == FMul(a0[1], a_norm)
      ay == FMul(a0[2], a_norm)
      az == FMul(a0[3], a_norm)
      _2q0 == FMul(Lit(2), q0)
      _2q1 == FMul(Lit(2), q1)
      _2q2 == FMul(Lit(2), q2)
      _2q3 == FMul(Lit(2), q3)
      _4q0 == FMul(Lit(4), q0)
      _4q1 == FMul(Lit(4), q1)
      _4q2 == FMul(Lit(4), q2)
      _8q1 == FMul(Lit(8), q1)
      _8q2 == FMul(Lit(8), q2)
      q0q0 == FMul(q0, q0)
      q1q1 == FMul(q1, q1)
      q2q2 == FMul(q2, q2)
      q3q3 == FMul(q3, q3)
      g0 == FSub(FAdd(FAdd(FMul(_4q0, q2q2), FMul(_2q2, ax)),
                      FMul(_4q0, q1q1)),
                 FMul(_2q1, ay))
      g1 == FAdd(FAdd(FAdd(FSub(FSub(FAdd(FSub(FMul(_4q1, q3q3),
                                               FMul(_2q3, ax)),
                                          FMul(FMul(Lit(4), q0q0), q1)),
                                     FMul(_2q0, ay)),
                                _4q1),
                           FMul(_8q1, q1q1)),
                      FMul(_8q1, q2q2)),
                 FMul(_4q1, az))
      g2 == FAdd(FAdd(FAdd(FSub(FSub(FAdd(FAdd(FMul(FMul(Lit(4), q0q0), q2),
                                               FMul(_2q0, ax)),
                                          FMul(_4q2, q3q3)),
                                     FMul(_2q3, ay)),
                                _4q2),
                           FMul(_8q2, q1q1)),
                      FMul(_8q2, q2q2)),
                 FMul(_4q2, az))
      g3 == FSub(FAdd(FSub(FMul(FMul(Lit(4), q1q1), q3), FMul(_2q1, ax)),
                      FMul(FMul(Lit(4), q2q2), q3)),
                 FMul(_2q2, ay))
      s_norm == FDiv(Lit(1), sqrtf(FSum4(FMul(g0, g0), FMul(g1, g1),
                                         FMul(g2, g2), FMul(g3, g3))))
      s0 == FMul(g0, s_norm)
      s1 == FMul(g1, s_norm)
      s2 == FMul(g2, s_norm)
      s3 == FMul(g3, s_norm)
      q_dot1 == IF valid THEN FSub(gyro1, FMul(f.beta, s0)) ELSE gyro1
      q_dot2 == IF valid THEN FSub(gyro2, FMul(f.beta, s1)) ELSE gyro2
      q_dot3 == IF valid THEN FSub(gyro3, FMul(f.beta, s2)) ELSE gyro3
      q_dot4 == IF valid THEN FSub(gyro4, FMul(f.beta, s3)) ELSE gyro4
      dt == FDiv(Lit(1), f.sample_freq)
      i0 == FAdd(q0, FMul(q_dot1, dt))
      i1 == FAdd(q1, FMul(q_dot2, dt))
      i2 == FAdd(q2, FMul(q_dot3, dt))
      i3 == FAdd(q3, FMul(q_dot4, dt))
      q_norm == FDiv(Lit(1), sqrtf(FSum4(FMul(i0, i0), FMul(i1, i1),
                                         FMul(i2, i2), FMul(i3, i3))))
  IN [f EXCEPT !.q0 = FMul(i0, q_norm), !.q1 = FMul(i1, q_norm),
               !.q2 = FMul(i2, q_norm), !.q3 = FMul(i3, q_norm)]

\* madgwick_update(m, gx, gy, gz, ax, ay, az) on the filter imu_init has
\* initialised.
madgwick_update(g, a0) ==
  /\ filter.sample_freq = IMU_SAMPLE_FREQ
  /\ updates < MaxCalls
  /\ filter' = Updated(filter, g, a0)
  /\ updates' = updates + 1
  /\ UNCHANGED <<packetvars, imuvars, tmcvars, mutex, linkvars, init_all,
                 euler, chip>>

\* M_PI, to the thousandth.
M_PI == Num(3142)

\* atan of z thousandths, 0 <= z <= 1: (pi/4) z + 0.273 z (1 - z), which is
\* within 0.004 of it.
AtanUnit(z) ==
  RoundDiv(785 * z, Scale) + RoundDiv(273 * z * (Scale - z), Scale * Scale)

\* atan2f(y, x): NaN for a NaN argument, a finite angle for every other
\* pair, the infinities included.
atan2f(y, x) ==
  IF y.k = "nan" \/ x.k = "nan" THEN NaN
  ELSE LET pi == M_PI.v
           ay == IF y.k = "inf" THEN MaxRoot ELSE Abs(y.v)
           ax == IF x.k = "inf" THEN MaxRoot ELSE Abs(x.v)
           first == IF ax = 0 /\ ay = 0 THEN 0
                    ELSE IF ax >= ay
                         THEN AtanUnit(RoundDiv(ay * Scale, ax))
                         ELSE pi \div 2 - AtanUnit(RoundDiv(ax * Scale, ay))
           upper == IF x.v < 0 THEN pi - first ELSE first
       IN Num(IF y.v < 0 THEN -upper ELSE upper)

\* asinf(x): NaN for a NaN and outside [-1, 1].
asinf(x) ==
  IF x.k # "num" \/ Abs(x.v) > Scale THEN NaN
  ELSE atan2f(x, sqrtf(FSub(Lit(1), FMul(x, x))))

\* fabsf(a) >= 1.0f, false for a NaN.
AbsAtLeastOne(a) == a.k = "inf" \/ (a.k = "num" /\ Abs(a.v) >= Scale)

\* copysignf(a, b) for a number a.
copysignf(a, b) == Num(IF b.v < 0 THEN -Abs(a.v) ELSE Abs(a.v))

\* madgwick_get_euler lines 141-145: the pitch for a pitch sine.
Pitch(sinp) ==
  IF AbsAtLeastOne(sinp)
  THEN copysignf(FDiv(M_PI, Lit(2)), sinp)
  ELSE asinf(sinp)

\* madgwick_get_euler(m, &roll, &pitch, &yaw)
madgwick_get_euler ==
  /\ filter.sample_freq = IMU_SAMPLE_FREQ
  /\ LET q0 == filter.q0
         q1 == filter.q1
         q2 == filter.q2
         q3 == filter.q3
         sinr_cosp == FMul(Lit(2), FAdd(FMul(q0, q1), FMul(q2, q3)))
         cosr_cosp == FSub(Lit(1), FMul(Lit(2), FAdd(FMul(q1, q1),
                                                     FMul(q2, q2))))
         sinp == FMul(Lit(2), FSub(FMul(q0, q2), FMul(q3, q1)))
         siny_cosp == FMul(Lit(2), FAdd(FMul(q0, q3), FMul(q1, q2)))
         cosy_cosp == FSub(Lit(1), FMul(Lit(2), FAdd(FMul(q2, q2),
                                                     FMul(q3, q3))))
     IN euler' = [roll |-> atan2f(sinr_cosp, cosr_cosp),
                  pitch |-> Pitch(sinp),
                  yaw |-> atan2f(siny_cosp, cosy_cosp),
                  sinp |-> sinp]
  /\ UNCHANGED <<packetvars, imuvars, tmcvars, mutex, linkvars, init_all,
                 filter, updates, chip>>

\* A float triple from thousandths.
Vec(x, y, z) == <<Num(x), Num(y), Num(z)>>

\* Gyroscope readings, rad/s.
Gyros == {Vec(0, 0, 0), Vec(Scale, 0, 0), Vec(0, -Scale, 0), Vec(0, 0, Scale)}

\* Accelerometer readings: none, the sensor level in two units, on its side,
\* and tilted.
Accels ==
  {Vec(0, 0, 0), Vec(0, 0, Scale), Vec(0, 0, 2 * Scale), Vec(Scale, 0, 0),
   Vec(0, Scale, Scale)}

\* ------------------------------- TMC9660 driver, calls of two threads
\* A thread enters tmc9660_set_bank, tmc9660_set_address or tmc9660_read_32
\* and comes to k_mutex_lock.
tmc9660_api_enter(c, op, m, arg) ==
  /\ tpc[c] = "idle"
  /\ call' = [call EXCEPT ![c] =
                [NoCall EXCEPT !.op = op, !.motor = m, !.arg = arg,
                               !.bank0 = motors[m].current_bank,
                               !.addr0 = motors[m].current_addr,
                               !.ready0 = motors[m].initialized]]
  /\ tpc' = [tpc EXCEPT ![c] = "lock"]
  /\ UNCHANGED <<outside_link, motors, done, mutex, linkvars>>

\* The request of the call of thread c.
ApiRequest(c) ==
  CASE call[c].op = "set_bank" -> <<TMC9660_CMD_SET_BANK, call[c].arg>>
    [] call[c].op = "set_address" -> <<TMC9660_CMD_SET_ADDRESS, call[c].arg>>
    [] OTHER -> <<TMC9660_CMD_READ_32, 0>>

\* The thread holds the mutex: tmc9660_set_bank goes to k_mutex_unlock with
\* 0 if the bank is cached; otherwise tmc9660_transact sends the request
\* and waits in uart_recv.
tmc9660_api_request(c) ==
  /\ tpc[c] = "locked"
  /\ IF call[c].op = "set_bank"
        /\ BankCached(motors[call[c].motor], call[c].arg)
     THEN /\ call' = [call EXCEPT ![c].ret = 0]
          /\ tpc' = [tpc EXCEPT ![c] = "unlock"]
     ELSE /\ call' = [call EXCEPT ![c].sent = Append(@, ApiRequest(c))]
          /\ tpc' = [tpc EXCEPT ![c] = "transact"]
  /\ UNCHANGED <<outside_link, motors, done, mutex, linkvars>>

\* uart_recv and tmc9660_transact return; the call stores what it caches
\* and goes to k_mutex_unlock.
tmc9660_api_reply(c, outcome, value) ==
  /\ tpc[c] = "transact"
  /\ LET m == call[c].motor
         r == tmc9660_transact(outcome)
     IN /\ call' = [call EXCEPT
                     ![c].rets = Append(@, r),
                     ![c].ret = r,
                     ![c].out = IF call[c].op = "read_32"
                                   /\ ReplyStored(outcome)
                                THEN value ELSE @]
        /\ motors' =
             [motors EXCEPT ![m] =
                CASE call[c].op = "set_bank" -> CacheBank(@, call[c].arg, r)
                  [] call[c].op = "set_address" -> CacheAddr(@, call[c].arg, r)
                  [] OTHER -> @]
        /\ tpc' = [tpc EXCEPT ![c] = "unlock"]
  /\ UNCHANGED <<outside_link, done, mutex, linkvars>>

\* The calls of thread c on instance m.
ApiCalls(c, m) ==
  \/ \E bank \in {TMC9660_BANK_CONFIG, TMC9660_BANK_OTP} :
        tmc9660_api_enter(c, "set_bank", m, bank)
  \/ tmc9660_api_enter(c, "set_address", m, TMC9660_CONFIG_BASE_ADDR + 4)
  \/ tmc9660_api_enter(c, "read_32", m, 0)

\* The steps of thread c inside a call.
ApiRunning(c) ==
  \/ k_mutex_lock(c)
  \/ tmc9660_api_request(c)
  \/ \E outcome \in Outcomes : \E value \in Versions :
        tmc9660_api_reply(c, outcome, value)
  \/ k_mutex_unlock(c)

\* ------------------------------------------------------------- Next
Next ==
  \/ \E id \in SegIds : packet_set_segment_id(id)
  \/ network_start_servers
  \/ \E t \in Threads : \E f \in Frames : Deliver(t, f)
  \/ \E t \in Threads : server_thread_recv(t)
  \/ \E t \in Threads : parse_head_checks(t)
  \/ \E t \in Threads : parse_count_error(t)
  \/ \E t \in Threads : parse_record_error(t)
  \/ \E t \in Threads : parse_switch(t)
  \/ \E t \in Threads : packet_handle_emergency_stop(t)
  \/ \E t \in Threads : emergency_stop_set_idle(t)
  \/ \E t \in Threads : start_homing(t)
  \/ \E t \in Threads : packet_handle_set_mode(t)
  \/ \E t \in Threads : set_mode_clear_latch(t)
  \/ \E t \in Threads : server_thread_loop(t)

Spec == Init /\ [][Next]_vars

\* Dispatch of the frames of TelemetryFrames together with the periodic
\* diagnostics of main.
NextTelemetry ==
  \/ \E id \in SegIds : packet_set_segment_id(id)
  \/ network_start_servers
  \/ \E t \in Threads : \E f \in TelemetryFrames : Deliver(t, f)
  \/ \E t \in Threads : server_thread_recv(t)
  \/ \E t \in Threads : parse_head_checks(t)
  \/ \E t \in Threads : parse_count_error(t)
  \/ \E t \in Threads : parse_record_error(t)
  \/ \E t \in Threads : parse_switch(t)
  \/ \E t \in Threads : packet_handle_emergency_stop(t)
  \/ \E t \in Threads : emergency_stop_set_idle(t)
  \/ \E t \in Threads : start_homing(t)
  \/ \E t \in Threads : packet_handle_set_mode(t)
  \/ \E t \in Threads : set_mode_clear_latch(t)
  \/ \E t \in Threads : server_thread_loop(t)
  \/ packet_build_diagnostics_count
  \/ packet_build_diagnostics_last
  \/ network_send_tcp

SpecTelemetry == Init /\ [][NextTelemetry]_vars

\* The two telemetry builders on every SystemState and orientation.
NextBuild ==
  \/ \E segment_id \in BuildSegIds : \E timestamp \in Timestamps :
        packet_build_diagnostics(segment_id, timestamp)
  \/ \E segment_id \in BuildSegIds : \E timestamp \in Timestamps :
        packet_build_motor_state(segment_id, timestamp)
  \/ network_send_packet

SpecBuild == InitBuild /\ [][NextBuild]_vars

\* One thread calling the driver.
NextTmc ==
  \/ \E m \in CallMotors : \E bank \in CallBanks :
        tmc9660_call("app", "set_bank", m, bank, 0)
  \/ \E m \in CallMotors :
        tmc9660_call("app", "set_address", m, TMC9660_CONFIG_BASE_ADDR + 4, 0)
  \/ \E m \in CallMotors : tmc9660_call("app", "read_32", m, 0, 0)
  \/ \E m \in CallMotors : \E value \in CallValues :
        tmc9660_call("app", "write_32", m, 0, value)
  \/ \E m \in CallMotors : \E offset \in CallOffsets :
        tmc9660_call("app", "read_config", m, offset, 0)
  \/ \E m \in CallMotors : \E offset \in CallOffsets :
        \E value \in CallValues :
          tmc9660_call("app", "write_config", m, offset, value)
  \/ \E outcome \in Outcomes : tmc9660_set_bank("app", outcome)
  \/ \E outcome \in Outcomes : tmc9660_set_address("app", outcome)
  \/ \E outcome \in Outcomes : \E value \in ReplyValues :
        tmc9660_read_32("app", outcome, value)
  \/ \E outcome \in Outcomes : tmc9660_write_32("app", outcome)
  \/ tmc9660_return("app")

SpecTmc == Init /\ [][NextTmc]_vars

\* What the line of the chip makes of a request: the reply arrives, or the
\* request or the reply is lost.
LineOutcomes == {"ok", "timeout"}

\* Threads app and ctl calling the driver on instance A, whose chip executes
\* the requests: app selects the OTP bank and reads the word at offset 4,
\* ctl writes the word at offset 8.
NextChip ==
  \/ tmc9660_call("app", "set_bank", "A", TMC9660_BANK_OTP, 0)
  \/ tmc9660_call("app", "read_config", "A", 4, 0)
  \/ \E value \in CallValues :
        tmc9660_call("ctl", "write_config", "A", 8, value)
  \/ \E c \in Callers : \E outcome \in LineOutcomes : \E executed \in BOOLEAN :
        chip_set_bank(c, outcome, executed)
  \/ \E c \in Callers : \E outcome \in LineOutcomes : \E executed \in BOOLEAN :
        chip_set_address(c, outcome, executed)
  \/ \E c \in Callers : \E outcome \in LineOutcomes : chip_read_32(c, outcome)
  \/ \E c \in Callers : \E outcome \in LineOutcomes : \E executed \in BOOLEAN :
        chip_write_32(c, outcome, executed)
  \/ \E c \in Callers : tmc9660_return(c)

SpecChip == Init /\ [][NextChip]_vars

\* One thread calling tmc9660_init and tmc9660_init_all.
NextInit ==
  \/ \E m \in CallMotors : \E ready \in BOOLEAN :
        tmc9660_init("app", m, ready)
  \/ \E outcome \in Outcomes : \E value \in ChipTypes :
        tmc9660_init_chip_type("app", outcome, value)
  \/ \E outcome \in {"ok", "timeout"} : \E value \in Versions :
        tmc9660_init_chip_version("app", outcome, value)
  \/ \E outcome \in {"ok", "crc"} : \E value \in Versions :
        tmc9660_init_bl_version("app", outcome, value)
  \/ tmc9660_init_return("app")
  \/ tmc9660_init_all
  \/ \E ready \in BOOLEAN : tmc9660_init_all_loop(ready)
  \/ tmc9660_init_all_return

SpecInit == Init /\ [][NextInit]_vars

\* Thread ctl calling the driver on instance A while thread app calls
\* tmc9660_init on it.
NextReinit ==
  \/ \E ready \in BOOLEAN : tmc9660_init("app", "A", ready)
  \/ \E outcome \in Outcomes : \E value \in ChipTypes :
        tmc9660_init_chip_type("app", outcome, value)
  \/ \E outcome \in {"ok", "timeout"} : \E value \in Versions :
        tmc9660_init_chip_version("app", outcome, value)
  \/ \E outcome \in {"ok", "crc"} : \E value \in Versions :
        tmc9660_init_bl_version("app", outcome, value)
  \/ tmc9660_init_return("app")
  \/ ApiCalls("ctl", "A")
  \/ k_mutex_lock("ctl")
  \/ tmc9660_api_request("ctl")
  \/ \E outcome \in Outcomes : \E value \in Versions :
        tmc9660_api_reply("ctl", outcome, value)
  \/ k_mutex_unlock("ctl")

SpecReinit == Init /\ [][NextReinit]_vars

\* imu_init initialising the filter and imu_update feeding it samples.
NextMadgwick ==
  \/ madgwick_init(IMU_SAMPLE_FREQ, MADGWICK_BETA)
  \/ \E g \in Gyros : \E a0 \in Accels : madgwick_update(g, a0)
  \/ madgwick_get_euler

SpecMadgwick == Init /\ [][NextMadgwick]_vars

\* Thread app calling the driver on instances A and B while thread ctl calls
\* it on B; app keeps running inside a call, ctl may stop anywhere, as it
\* does for a while when it waits in uart_recv.
NextPar ==
  \/ \E m \in CallMotors : ApiCalls("app", m)
  \/ ApiCalls("ctl", "B")
  \/ \E c \in Callers : k_mutex_lock(c)
  \/ \E c \in Callers : tmc9660_api_request(c)
  \/ \E c \in Callers : \E outcome \in Outcomes : \E value \in Versions :
        tmc9660_api_reply(c, outcome, value)
  \/ \E c \in Callers : k_mutex_unlock(c)

SpecPar == Init /\ [][NextPar]_vars /\ WF_vars(ApiRunning("app"))

\* Two threads calling tmc9660_get_info on one instance, and the line of
\* that instance byte by byte.
NextLink ==
  \/ \E c \in Callers : \E status_ptr \in BOOLEAN :
        tmc9660_get_info(c, status_ptr)
  \/ \E c \in Callers : k_mutex_lock(c)
  \/ \E c \in Callers : \E msg \in ReplyMsgs : \E n \in ReplyLengths :
        transact_send(c, msg, n)
  \/ device_byte
  \/ uart_poll_in_byte
  \/ uart_poll_in_none
  \/ \E d \in {0, 1} : k_sleep(d)
  \/ transact_verify
  \/ \E c \in Callers : transact_return(c)
  \/ \E c \in Callers : k_mutex_unlock(c)

SpecLink == Init /\ [][NextLink]_vars

\* The steps of thread c inside a call of the driver: those of the call,
\* and those of tmc9660_transact and uart_recv while c is in them.
Running(c) ==
  \/ k_mutex_lock(c)
  \/ \E msg \in ReplyMsgs : \E n \in ReplyLengths : transact_send(c, msg, n)
  \/ tpc[c] = "transact"
     /\ \/ uart_poll_in_byte
        \/ uart_poll_in_none
        \/ \E d \in {0, 1} : k_sleep(d)
        \/ transact_verify
  \/ transact_return(c)
  \/ k_mutex_unlock(c)

\* Calls that ask for no status, replies of two kinds.
LiveMsgs ==
  {ReplyMsg(TMC9660_STATUS_OK, <<84, 77, 0, 1>>),
   Damaged(ReplyMsg(TMC9660_STATUS_BUSY, <<0, 0, 1, 9>>), 4)}

NextLinkLive ==
  \/ \E c \in Callers : tmc9660_get_info(c, FALSE)
  \/ \E c \in Callers : k_mutex_lock(c)
  \/ \E c \in Callers : \E msg \in LiveMsgs : \E n \in ReplyLengths :
        transact_send(c, msg, n)
  \/ device_byte
  \/ uart_poll_in_byte
  \/ uart_poll_in_none
  \/ \E d \in {0, 1} : k_sleep(d)
  \/ transact_verify
  \/ \E c \in Callers : transact_return(c)
  \/ \E c \in Callers : k_mutex_unlock(c)

\* The same with every thread that is inside a call and can run running
\* (the kernel schedules a ready thread and ends every k_sleep) and with
\* the uptime growing. Nothing is asked of the device.
LinkFairness ==
  /\ \A c \in Callers : WF_vars(Running(c))
  /\ SF_vars(k_sleep(1))

SpecLinkLive == Init /\ [][NextLinkLive]_vars /\ LinkFairness

\* The estimator thread and the thread that builds MotorState packets.
NextImu ==
  \/ \E ok \in BOOLEAN : imu_init(ok)
  \/ \E fetch_ok \in BOOLEAN : imu_update(fetch_ok)
  \/ madgwick_get_euler_roll
  \/ madgwick_get_euler_pitch
  \/ madgwick_get_euler_yaw
  \/ packet_build_motor_state_imu
  \/ imu_get_orientation_roll
  \/ imu_get_orientation_pitch
  \/ imu_get_orientation_yaw
  \/ packet_build_motor_state_done

SpecImu == Init /\ [][NextImu]_vars

TypeOK ==
  /\ current_mode \in 0..255
  /\ emergency_stop_active \in BOOLEAN
  /\ error_count \in 0..(UINT16_MOD - 1)
  /\ last_error \in 0..255

\* ================================================================ claims
Returned(t) == pc[t] = "returned"
Quiescent == \A t \in Threads : pc[t] \in Blocked
Pair == [mode |-> current_mode, estop |-> emergency_stop_active]
PrePair(t) == [mode |-> pre[t].mode, estop |-> pre[t].estop]

IsCmd(data, type) == WellFormed(data) /\ PktType(data) = type
IsSetModeOperation(data) ==
  IsCmd(data, CMD_SET_MODE) /\ PktPayload0(data) = MODE_OPERATION

\* C1: when the dispatch of a valid EmergencyStop frame whose target is 0xFF
\* or this node's own id has returned, the latch is set, the mode is Idle
\* and parse has returned 0x02, whatever mode, latch and own id were before.
C1_EStopLatchesAndIdles ==
  \A t \in Threads :
    ( /\ Returned(t)
      /\ IsCmd(rx[t], CMD_EMERGENCY_STOP)
      /\ PktSegment(rx[t]) \in {BROADCAST_ID, my_segment_id} )
    => ( /\ emergency_stop_active
         /\ current_mode = MODE_IDLE
         /\ ret[t] = CMD_EMERGENCY_STOP )

C1_Witness ==
  \E t \in Threads :
    /\ Returned(t)
    /\ IsCmd(rx[t], CMD_EMERGENCY_STOP)
    /\ PktSegment(rx[t]) = BROADCAST_ID
    /\ my_segment_id = 3
    /\ pre[t].mode = MODE_OPERATION
    /\ ~pre[t].estop
    /\ emergency_stop_active
    /\ current_mode = MODE_IDLE

\* C2 (as stated): between dispatches, a set latch implies mode Idle.
C2_LatchImpliesIdle ==
  Quiescent => (emergency_stop_active => current_mode = MODE_IDLE)

\* C2 (amended): between dispatches, a set latch implies that the mode is
\* not Operation; StartHoming and SetMode with another mode byte still change
\* the mode while the latch stays set.
C2_LatchExcludesOperation ==
  Quiescent => (emergency_stop_active => current_mode # MODE_OPERATION)

C2_Witness ==
  /\ Quiescent
  /\ emergency_stop_active
  /\ current_mode = MODE_HOMING

\* C3: when an EmergencyStop frame and a SetMode frame were waiting on the
\* two paths at the same time, then once both dispatches have run the pair
\* (mode, latch) is what one of the two serial orders of the two handlers
\* gives from the state the frames found.
RaceOf(ty1, ty2) ==
  \E a, b \in Threads :
    a # b /\ IsCmd(race.f[a], ty1) /\ IsCmd(race.f[b], ty2)

RaceOver(t) == race # NoRace /\ race.left = {t} /\ Returned(t)

SerialOrder(first, second) ==
  SerialEffect(SerialEffect(race.S0, race.f[first], my_segment_id),
               race.f[second], my_segment_id)

C3_ConcurrentDispatchIsSerial ==
  \A t \in Threads :
    (RaceOver(t) /\ RaceOf(CMD_EMERGENCY_STOP, CMD_SET_MODE))
    => \E a, b \in Threads : a # b /\ Pair = SerialOrder(a, b)

C3_Witness ==
  /\ RaceOver("udp")
  /\ IsCmd(race.f["udp"], CMD_EMERGENCY_STOP)
  /\ PktSegment(race.f["udp"]) = BROADCAST_ID
  /\ IsSetModeOperation(race.f["tcp"])
  /\ race.S0.mode = MODE_HOMING
  /\ SerialOrder("tcp", "udp") # SerialOrder("udp", "tcp")

\* C4: the latch goes from set to clear only in the dispatch of a valid
\* SetMode frame with mode = Operation, and the step that ends the dispatch
\* of such a frame always leaves the latch clear.
EndsSetModeOperation(t) ==
  /\ pc[t] = "set_mode_latch"
  /\ pc'[t] = "returned"
  /\ IsSetModeOperation(rx[t])

C4_OnlySetModeOperationClears ==
  [][ /\ (emergency_stop_active /\ ~emergency_stop_active')
         => \E t \in Threads : EndsSetModeOperation(t)
      /\ \A t \in Threads :
           EndsSetModeOperation(t) => ~emergency_stop_active' ]_vars

C4_Witness ==
  \E t \in Threads :
    /\ Returned(t)
    /\ IsSetModeOperation(rx[t])
    /\ pre[t].estop
    /\ ~emergency_stop_active

\* C5: when the dispatch of a valid EmergencyStop frame whose target is
\* neither 0xFF nor this node's own id has returned, latch, mode, error
\* counter and last error code are what they were at entry.
C5_UntargetedEStopIsInert ==
  \A t \in Threads :
    ( /\ Returned(t)
      /\ IsCmd(rx[t], CMD_EMERGENCY_STOP)
      /\ PktSegment(rx[t]) \notin {BROADCAST_ID, my_segment_id} )
    => Snap = pre[t]

C5_Witness ==
  \E t \in Threads :
    /\ Returned(t)
    /\ IsCmd(rx[t], CMD_EMERGENCY_STOP)
    /\ PktSegment(rx[t]) = 7
    /\ pre[t].mode = MODE_OPERATION
    /\ ~pre[t].estop
    /\ pre[t].errs > 0

\* C6 (as stated): in every reachable state the mode is Idle, Homing or
\* Operation.
C6_ModeInDomain ==
  current_mode \in {MODE_IDLE, MODE_HOMING, MODE_OPERATION}

\* C7 (as stated): every change of mode is Idle to Homing by StartHoming,
\* any mode to Operation by SetMode(Operation), or any mode to Idle by
\* SetMode(Idle) or by a targeted or broadcast EmergencyStop.
C7_ListedTransitionsOnly ==
  [][ current_mode' # current_mode
      => \E t \in Threads :
           \/ /\ pc[t] = "homing"
              /\ current_mode = MODE_IDLE
              /\ current_mode' = MODE_HOMING
           \/ /\ pc[t] = "set_mode"
              /\ PktPayload0(rx[t]) \in {MODE_OPERATION, MODE_IDLE}
              /\ current_mode' = PktPayload0(rx[t])
           \/ /\ pc[t] = "estop_mode"
              /\ current_mode' = MODE_IDLE ]_vars

\* C7 (amended): every change of mode is made by a frame dispatch and is
\* one of: any mode to Homing by StartHoming, any mode to the mode byte a
\* SetMode frame carries, any mode to Idle by a targeted or broadcast
\* EmergencyStop.
C7_DispatchTransitionsOnly ==
  [][ current_mode' # current_mode
      => \E t \in Threads :
           \/ /\ pc[t] = "homing"
              /\ IsCmd(rx[t], CMD_START_HOMING)
              /\ current_mode' = MODE_HOMING
           \/ /\ pc[t] = "set_mode"
              /\ IsCmd(rx[t], CMD_SET_MODE)
              /\ current_mode' = PktPayload0(rx[t])
           \/ /\ pc[t] = "estop_mode"
              /\ IsCmd(rx[t], CMD_EMERGENCY_STOP)
              /\ PktSegment(rx[t]) \in {BROADCAST_ID, my_segment_id}
              /\ current_mode' = MODE_IDLE ]_vars

C7_Witness ==
  \E t \in Threads :
    /\ Returned(t)
    /\ IsCmd(rx[t], CMD_START_HOMING)
    /\ pre[t].mode = MODE_OPERATION
    /\ current_mode = MODE_HOMING

\* C8 (as stated): when parse has returned for a frame that fails any test
\* (too short, magic, checksum, size, type), the error counter is one more
\* than at entry, last-error holds an error code and parse returned -1.
C8_EveryParseErrorCounted ==
  \A t \in Threads :
    (Returned(t) /\ ~WellFormed(rx[t]))
    => ( /\ error_count = (pre[t].errs + 1) % UINT16_MOD
         /\ last_error # ERROR_NO_ERROR
         /\ ret[t] = -1 )

\* C9 (as stated): when parse has returned for a frame with correct magic
\* and CRC16 and one of the six types, but not that type's size, it returned
\* an error and not the type code, entered no handler and left mode and
\* latch as they were.
C9_SizeMismatchIsAnError ==
  \A t \in Threads :
    ( /\ Returned(t)
      /\ HeadChecksPass(rx[t])
      /\ PktType(rx[t]) \in CommandTypes
      /\ Len(rx[t]) # SizeOf(PktType(rx[t])) )
    => ( /\ ret[t] = -1
         /\ ret[t] # PktType(rx[t])
         /\ handlers[t] = <<>>
         /\ Pair = PrePair(t) )

\* C10: a frame that fails a test leaves mode and latch as they were at
\* entry, and between dispatches mode and latch are those of a node that was
\* sent the well-formed frames only, in the same order.
C10_RejectedFramesAreInert ==
  /\ \A t \in Threads :
       (Returned(t) /\ ~WellFormed(rx[t])) => Pair = PrePair(t)
  /\ Quiescent => Pair = shadow

C10_Witness ==
  \E t \in Threads :
    /\ Returned(t)
    /\ IsSetModeOperation(rx[t])
    /\ pre[t].errs > 0
    /\ pre[t].last = ERROR_CRC_ERROR
    /\ pre[t].estop
    /\ Pair = [mode |-> MODE_OPERATION, estop |-> FALSE]

\* C11 (as stated): a buffer is rejected for the first test it fails in the
\* order length, magic, checksum, type, and the outcome tells the causes
\* apart: parse returns an error, and last-error holds the checksum code
\* exactly when the cause is the checksum.
C11_CauseIsTold ==
  \A t \in Threads :
    ( /\ Returned(t)
      /\ RejectCause(rx[t]) \in
           {"TooShort", "MagicMismatch", "ChecksumError", "UnknownType"} )
    => ( /\ ret[t] = -1
         /\ last_error = ERROR_CRC_ERROR
              <=> RejectCause(rx[t]) = "ChecksumError" )

\* The body of the switch case of each command type.
HandlerOf(type) ==
  CASE type = CMD_TRAJECTORY -> "trajectory"
    [] type = CMD_EMERGENCY_STOP -> "emergency_stop"
    [] type = CMD_START_HOMING -> "start_homing"
    [] type = CMD_JOG_MOTOR -> "jog_motor"
    [] type = CMD_SET_MODE -> "set_mode"
    [] type = CMD_SET_ZERO_OFFSET -> "set_zero_offset"

\* C12: when parse has returned for a frame of one of the six types with
\* that type's exact size, magic 0xAA55 and a correct CRC16 trailer, it
\* returned the type code, entered that type's handler exactly once and no
\* other, and left error counter and last-error code as they were at entry.
C12_ExactFrameParses ==
  \A t \in Threads :
    (Returned(t) /\ WellFormed(rx[t]))
    => ( /\ ret[t] = PktType(rx[t])
         /\ handlers[t] = <<HandlerOf(PktType(rx[t]))>>
         /\ error_count = pre[t].errs
         /\ last_error = pre[t].last )

C12_Witness ==
  \E t \in Threads :
    /\ Returned(t)
    /\ IsCmd(rx[t], CMD_TRAJECTORY)
    /\ ret[t] = CMD_TRAJECTORY
    /\ handlers[t] = <<"trajectory">>
    /\ pre[t].errs > 0
    /\ error_count = pre[t].errs

\* data is a valid command frame with the value of exactly one byte between
\* the magic and the CRC trailer (C offsets 2 .. length-3) changed.
IsSingleByteChange(data) ==
  \E f \in ExactFrames :
    /\ Len(f) = Len(data)
    /\ \E i \in 3..(Len(f) - 2) :
         /\ data[i] # f[i]
         /\ \A j \in 1..Len(f) : j # i => data[j] = f[j]

\* C13: when parse has returned for a valid frame with one byte between
\* magic and trailer changed, the frame failed the CRC16 test: parse
\* returned -1 with the checksum code recorded and the counter one higher,
\* no handler was entered, mode and latch are as at entry.
\* Moreover the CRC16 test fails for every other value of every such byte
\* of the frames of up to 13 bytes (a fact about the frames alone, stated
\* for the initial state).
C13_SingleByteChangeIsRejected ==
  /\ \A t \in Threads :
       (Returned(t) /\ IsSingleByteChange(rx[t]))
       => ( /\ RejectCause(rx[t]) = "ChecksumError"
            /\ ret[t] = -1
            /\ handlers[t] = <<>>
            /\ Pair = PrePair(t)
            /\ error_count = (pre[t].errs + 1) % UINT16_MOD
            /\ last_error = ERROR_CRC_ERROR )
  /\ main_pc = "start"
     => \A f \in FlipBases \ TrajectoryFrames :
          \A i \in 2..(Len(f) - 3) :
            \A v \in (0..255) \ {f[i + 1]} :
              RejectCause(Corrupt(f, i, v)) = "ChecksumError"

\* An EmergencyStop frame whose type byte became that of StartHoming (same
\* size), received in Operation.
C13_Witness ==
  \E t \in Threads :
    /\ Returned(t)
    /\ IsSingleByteChange(rx[t])
    /\ PktType(rx[t]) = CMD_START_HOMING
    /\ Len(rx[t]) = SIZEOF_start_homing_packet_t
    /\ PktSegment(rx[t]) = BROADCAST_ID
    /\ pre[t].mode = MODE_OPERATION
    /\ current_mode = MODE_OPERATION
    /\ error_count = pre[t].errs + 1

Bit(v, k) == (v \div (2 ^ k)) % 2

\* C14: in every reachable state the status byte has bit 0 set iff the latch
\* is set, bit 1 iff the mode is Homing, bit 5 iff the mode is Operation,
\* bit 7 iff last-error is not "no error", and bits 2, 3, 4 and 6 clear.
C14_StatusFlagsBits ==
  LET flags == packet_get_status_flags
  IN /\ flags \in 0..255
     /\ Bit(flags, 0) = 1 <=> emergency_stop_active
     /\ Bit(flags, 1) = 1 <=> current_mode = MODE_HOMING
     /\ Bit(flags, 5) = 1 <=> current_mode = MODE_OPERATION
     /\ Bit(flags, 7) = 1 <=> last_error # ERROR_NO_ERROR
     /\ \A k \in {2, 3, 4, 6} : Bit(flags, k) = 0

C14_Witness ==
  /\ emergency_stop_active
  /\ current_mode = MODE_HOMING
  /\ last_error = ERROR_CRC_ERROR
  /\ packet_get_status_flags = 131

\* C15 (as stated): the error counter and the last-error code of a built
\* Diagnostics frame are a pair that SystemState held at one instant since
\* the build read its first field.
C15_DiagnosticsPairWasHeld ==
  build_pc = "built"
  => <<diag.error_count, diag.last_error_code>> \in held

\* C16 (as stated): the roll, pitch and yaw of a built MotorState packet
\* were computed by one and the same update of the estimator.
C16_OrientationFromOneUpdate ==
  reader_pc = "built"
  => (pkt_imu.roll = pkt_imu.pitch /\ pkt_imu.pitch = pkt_imu.yaw)

\* C17: when parse has returned for a valid JogMotor, Trajectory or
\* SetZeroOffset frame, mode, latch, error counter, last-error code and
\* segment id are what they were at entry.
C17_MotionFramesLeaveState ==
  \A t \in Threads :
    ( /\ Returned(t)
      /\ \/ IsCmd(rx[t], CMD_JOG_MOTOR)
         \/ IsCmd(rx[t], CMD_TRAJECTORY)
         \/ IsCmd(rx[t], CMD_SET_ZERO_OFFSET) )
    => Snap = pre[t]

C17_Witness ==
  \E t \in Threads :
    /\ Returned(t)
    /\ IsCmd(rx[t], CMD_JOG_MOTOR)
    /\ handlers[t] = <<"jog_motor">>
    /\ pre[t] = [mode |-> MODE_HOMING, estop |-> TRUE, errs |-> 1,
                 last |-> ERROR_CRC_ERROR, seg |-> 3]
    /\ Snap = pre[t]

\* C18: crc16_verify is true on the whole byte image of every packet that
\* packet_build_diagnostics or packet_build_motor_state has built: its last
\* two bytes are the CRC16 of all bytes before them, low byte first.
C18_BuiltPacketsVerify ==
  tx # NoFrame
  => ( /\ crc16_verify(tx, Len(tx))
       /\ LE16(crc16_ccitt(65535, tx, Len(tx) - 2))
            = <<tx[Len(tx) - 1], tx[Len(tx)]>> )

\* A MotorState packet with latch, Homing and error bits, three distinct
\* non-zero angles and the largest timestamp.
C18_Witness ==
  /\ Len(tx) = SIZEOF_motor_state_packet_t
  /\ PktType(tx) = FEEDBACK_MOTOR_STATE
  /\ PktSegment(tx) = 3
  /\ tx[81] = 131
  /\ SubSeq(tx, 5, 8) = <<255, 255, 255, 255>>
  /\ SubSeq(tx, 69, 72) = LE32(F32OfAngle(3))
  /\ SubSeq(tx, 73, 76) = LE32(F32OfAngle(2))
  /\ crc16_verify(tx, Len(tx))

\* The call of thread c is about to return and repeats the call that
\* returned just before it: same function, same instance, same argument.
Repeats(c, op) ==
  /\ tpc[c] = "return"
  /\ call[c].op = op
  /\ done.op = op
  /\ done.motor = call[c].motor
  /\ done.arg = call[c].arg

\* set_bank sends at most one request, SET_BANK(bank), and only if bank
\* differs from the bank cached at entry; when it returns 0 the cache holds
\* bank.
SetBankRule(c) ==
  (tpc[c] = "return" /\ call[c].op = "set_bank")
  => LET k == call[c]
     IN /\ k.sent = IF k.arg = k.bank0 THEN <<>>
                    ELSE << <<TMC9660_CMD_SET_BANK, k.arg>> >>
        /\ k.arg = k.bank0 => k.ret = 0
        /\ k.ret = 0 => motors[k.motor].current_bank = k.arg

\* C19 (as stated): the rule of set_bank, and two consecutive calls
\* set_bank(X) on an instance send exactly one request in total.
C19_TwiceIsOneTransaction ==
  \A c \in Callers :
    /\ SetBankRule(c)
    /\ Repeats(c, "set_bank") => Len(done.sent) + Len(call[c].sent) = 1

\* C19 (amended): the rule of set_bank, and two consecutive calls
\* set_bank(X) on an instance send no request when X was cached before the
\* first, one request when it was not and the first call succeeds, and two
\* (one each) when the first call fails.
C19_TwiceIsOneAfterSuccess ==
  \A c \in Callers :
    /\ SetBankRule(c)
    /\ Repeats(c, "set_bank")
       => Len(done.sent) + Len(call[c].sent) =
            IF done.bank0 = done.arg THEN 0
            ELSE IF done.ret = 0 THEN 1
            ELSE 2

C19_Witness ==
  /\ Repeats("app", "set_bank")
  /\ call["app"].motor = "A"
  /\ call["app"].arg = TMC9660_BANK_CONFIG
  /\ done.bank0 = BANK_INVALID
  /\ done.sent = << <<TMC9660_CMD_SET_BANK, TMC9660_BANK_CONFIG>> >>
  /\ done.ret = 0
  /\ call["app"].sent = <<>>
  /\ call["app"].ret = 0
  /\ motors["A"].current_bank = TMC9660_BANK_CONFIG

\* The requests of read_config at a given offset.
SetBankConfig == <<TMC9660_CMD_SET_BANK, TMC9660_BANK_CONFIG>>
SetAddressAt(offset) ==
  <<TMC9660_CMD_SET_ADDRESS, TMC9660_CONFIG_BASE_ADDR + offset>>
Read32 == <<TMC9660_CMD_READ_32, 0>>

\* Two consecutive calls read_config on one instance with one offset, all
\* of whose requests succeeded.
ReadConfigTwice(c) ==
  /\ Repeats(c, "read_config")
  /\ done.ret = 0
  /\ call[c].ret = 0

\* C20 (as stated): of two such calls the first sends SET_BANK(CONFIG),
\* SET_ADDRESS(0x00020000 + offset), READ_32 and the second SET_ADDRESS,
\* READ_32.
C20_ThreeThenTwo ==
  \A c \in Callers :
    ReadConfigTwice(c)
    => /\ done.sent = <<SetBankConfig, SetAddressAt(done.arg), Read32>>
       /\ call[c].sent = <<SetAddressAt(done.arg), Read32>>

\* C20 (amended): the second sends SET_ADDRESS, READ_32; the first sends
\* SET_BANK(CONFIG), SET_ADDRESS, READ_32 when the CONFIG bank was not cached
\* before it (as on an instance that has sent nothing yet), and SET_ADDRESS,
\* READ_32 when it was.
C20_ThreeThenTwoFromOtherBank ==
  \A c \in Callers :
    ReadConfigTwice(c)
    => /\ done.sent =
            IF done.bank0 = TMC9660_BANK_CONFIG
            THEN <<SetAddressAt(done.arg), Read32>>
            ELSE <<SetBankConfig, SetAddressAt(done.arg), Read32>>
       /\ call[c].sent = <<SetAddressAt(done.arg), Read32>>

C20_Witness ==
  /\ ReadConfigTwice("app")
  /\ call["app"].motor = "A"
  /\ call["app"].arg = 4
  /\ done.bank0 = BANK_INVALID
  /\ done.sent = << <<9, 5>>, <<11, 131076>>, <<12, 0>> >>
  /\ call["app"].sent = << <<11, 131076>>, <<12, 0>> >>

\* C21: a step of set_bank or set_address whose transaction fails, by a
\* timeout, a CRC8 mismatch or a status other than OK, leaves the cached
\* bank and the cached address of every instance as they were.
C21_FailureKeepsCaches ==
  [][\A c \in Callers : \A outcome \in Outcomes \ {"ok"} :
       (tmc9660_set_bank(c, outcome) \/ tmc9660_set_address(c, outcome))
       => motors' = motors]_vars

\* set_address(CONFIG_BASE + 4) has failed on A, and set_bank(CONFIG), which
\* A had not cached, has then failed too.
C21_Witness ==
  /\ done.op = "set_address"
  /\ done.motor = "A"
  /\ done.ret = -EBADMSG
  /\ Len(done.sent) = 1
  /\ tpc["app"] = "return"
  /\ call["app"].op = "set_bank"
  /\ call["app"].motor = "A"
  /\ call["app"].arg = TMC9660_BANK_CONFIG
  /\ call["app"].sent = << <<TMC9660_CMD_SET_BANK, TMC9660_BANK_CONFIG>> >>
  /\ call["app"].ret = -ETIMEDOUT
  /\ motors["A"].current_bank = TMC9660_BANK_OTP
  /\ motors["A"].current_bank = call["app"].bank0
  /\ motors["A"].current_addr = done.addr0
  /\ motors["A"].current_addr # done.arg

\* C22: read_config and write_config with an offset of 64 or more, or not
\* a multiple of 4, return -EINVAL having sent no request; the cached bank
\* and address of the instance and the caller's value are what they were.
C22_BadOffsetSendsNothing ==
  \A c \in Callers :
    LET k == call[c]
    IN (/\ tpc[c] = "return"
        /\ k.op \in {"read_config", "write_config"}
        /\ (k.arg >= 64 \/ k.arg % 4 # 0))
       => /\ k.ret = -EINVAL
          /\ k.sent = <<>>
          /\ k.out = NoValue
          /\ motors[k.motor].current_bank = k.bank0
          /\ motors[k.motor].current_addr = k.addr0

\* read_config(6) has returned and write_config(64, .) is about to, on an
\* instance that has a bank and an address cached.
C22_Witness ==
  /\ done.op = "read_config"
  /\ done.arg = 6
  /\ done.motor = "B"
  /\ done.ret = -EINVAL
  /\ done.sent = <<>>
  /\ tpc["app"] = "return"
  /\ call["app"].op = "write_config"
  /\ call["app"].arg = 64
  /\ call["app"].motor = "B"
  /\ call["app"].ret = -EINVAL
  /\ motors["B"].current_bank = TMC9660_BANK_OTP
  /\ motors["B"].current_addr = TMC9660_CONFIG_BASE_ADDR + 4

\* The requests of a composite call k that runs to its end: SET_BANK only if
\* CONFIG was not cached at entry, SET_ADDRESS, then READ_32 or WRITE_32.
Write32(value) == <<TMC9660_CMD_WRITE_32, value>>

FullSequence(k) ==
  (IF k.bank0 = TMC9660_BANK_CONFIG THEN <<>> ELSE <<SetBankConfig>>)
  \o <<SetAddressAt(k.arg),
       IF k.op = "write_config" THEN Write32(k.value) ELSE Read32>>

\* C23: a read_config or write_config that passed the offset tests sends a
\* prefix of its sequence of requests, each request once; every request
\* but the last sent has succeeded, the call returns what the transaction
\* of the last request sent returned, and it returns 0 only having sent the
\* whole sequence. So nothing follows a failing SET_BANK or SET_ADDRESS.
C23_FailingStepAborts ==
  \A c \in Callers :
    LET k == call[c]
        n == Len(k.sent)
    IN (tpc[c] = "return" /\ Composite(k.op) /\ k.ret # -EINVAL)
       => /\ n >= 1
          /\ n <= Len(FullSequence(k))
          /\ k.sent = SubSeq(FullSequence(k), 1, n)
          /\ Len(k.rets) = n
          /\ \A i \in 1 .. n - 1 : k.rets[i] = 0
          /\ k.ret = k.rets[n]
          /\ k.ret = 0 => n = Len(FullSequence(k))
          /\ k.ret \in {0, -ETIMEDOUT, -EBADMSG, -EIO}

\* read_config(4) on A stopped at a SET_BANK that timed out; write_config(8,
\* .) on A then stopped at a SET_ADDRESS answered with a bad status.
C23_Witness ==
  /\ done.op = "read_config"
  /\ done.motor = "A"
  /\ done.sent = <<SetBankConfig>>
  /\ done.ret = -ETIMEDOUT
  /\ tpc["app"] = "return"
  /\ call["app"].op = "write_config"
  /\ call["app"].motor = "A"
  /\ call["app"].sent = <<SetBankConfig, SetAddressAt(8)>>
  /\ call["app"].rets = <<0, -EIO>>
  /\ call["app"].ret = -EIO

\* C29: every call set_address(addr) sends exactly one request,
\* SET_ADDRESS(addr), also when addr is the cached address; on success the
\* cached address is addr, on failure it is what it was.
C29_SetAddressAlwaysTransacts ==
  \A c \in Callers :
    LET k == call[c]
    IN (tpc[c] = "return" /\ k.op = "set_address")
       => /\ k.sent = << <<TMC9660_CMD_SET_ADDRESS, k.arg>> >>
          /\ k.ret = 0 => motors[k.motor].current_addr = k.arg
          /\ k.ret # 0 => motors[k.motor].current_addr = k.addr0
          /\ motors[k.motor].current_bank = k.bank0

\* set_address(addr) has sent its request although addr was cached, after a
\* set_address(addr) that failed and left the cache at another address.
C29_Witness ==
  /\ tpc["app"] = "return"
  /\ call["app"].op = "set_address"
  /\ call["app"].motor = "A"
  /\ call["app"].addr0 = call["app"].arg
  /\ call["app"].sent = << <<TMC9660_CMD_SET_ADDRESS, call["app"].arg>> >>
  /\ call["app"].ret = 0
  /\ done.op = "set_address"
  /\ done.motor = "B"
  /\ done.ret = -EIO
  /\ done.addr0 = 0
  /\ motors["B"].current_addr = 0

\* C24: when tmc9660_transact returns, what it returns and what it has
\* stored follow from the bytes uart_recv got, by the first test that fails:
\* fewer than 8 bytes give -ETIMEDOUT and a complete frame with a wrong CRC8
\* gives -EBADMSG, both with nothing stored; a frame with a good CRC8 has
\* its value stored, read MSB first, and its status stored where the caller
\* gave a status pointer, and gives -EIO if the status is not OK, else 0.
C24_ReplyClassification ==
  xpc = "returned"
  => IF Len(reply) < 8
     THEN /\ xact.ret = -ETIMEDOUT
          /\ xact.reply_value = NoValue
          /\ xact.reply_status = NoValue
     ELSE IF reply[8] # tmc9660_crc8(reply, 7)
     THEN /\ xact.ret = -EBADMSG
          /\ xact.reply_value = NoValue
          /\ xact.reply_status = NoValue
     ELSE /\ xact.reply_value =
               ((reply[4] * 256 + reply[5]) * 256 + reply[6]) * 256 + reply[7]
          /\ xact.reply_status = IF xact.status_ptr THEN reply[3] ELSE NoValue
          /\ xact.ret = IF reply[3] = 0 THEN 0 ELSE -EIO

\* A frame with a good CRC8 and status BUSY has come in whole: -EIO, with
\* the value 0x00000109 and the status stored.
C24_Witness ==
  /\ xpc = "returned"
  /\ reply = ReplyMsg(TMC9660_STATUS_BUSY, <<0, 0, 1, 9>>)
  /\ xact.status_ptr
  /\ xact.ret = -EIO
  /\ xact.reply_value = 265
  /\ xact.reply_status = TMC9660_STATUS_BUSY

C26_InitReadyIffChipType ==
  \A c \in Callers :
    LET k == call[c]
        inst == motors[k.motor]
        read_ok == k.rets # <<>> /\ k.rets[1] = 0
    IN (tpc[c] = "return" /\ k.op = "init")
       => /\ k.ret = 0 <=> (read_ok /\ k.out = 1414332417)
          /\ k.ret = 0 => (inst.initialized /\ Len(k.sent) = 3)
          /\ k.ret # 0 => inst.initialized = k.ready0
          /\ (k.rets # <<>> /\ k.rets[1] # 0)
             => (k.ret = k.rets[1] /\ Len(k.sent) = 1)
          /\ (read_ok /\ k.out # 1414332417)
             => (k.ret = -ENODEV /\ Len(k.sent) = 1)
          /\ k.rets = <<>> => k.ret = -ENODEV

\* tmc9660_init on A, not initialized before, is about to return 0: the chip
\* type was read and right, the two version reads failed.
C26_Witness ==
  /\ tpc["app"] = "return"
  /\ call["app"].op = "init"
  /\ call["app"].motor = "A"
  /\ ~call["app"].ready0
  /\ call["app"].rets = <<0, -ETIMEDOUT, -EBADMSG>>
  /\ call["app"].ret = 0
  /\ motors["A"].initialized
  /\ motors["A"].chip_type = TMC9660_CHIP_TYPE_EXPECTED
  /\ motors["A"].chip_version = 0
  /\ motors["A"].bootloader_version = 0

\* C27: tmc9660_init_all has called tmc9660_init once on each instance, in
\* order, when it returns; it returns 0 exactly when each of these calls
\* returned 0, and -ENODEV otherwise; each instance whose tmc9660_init
\* returned 0 is initialized, whatever tmc9660_init_all returns.
C27_InitAllTriesEveryInstance ==
  init_all.pc = "return"
  => /\ init_all.i = 3
     /\ Len(init_all.each) = 3
     /\ init_all.ret = 0 <=> (\A j \in 1 .. 3 : init_all.each[j] = 0)
     /\ init_all.ret \in {0, -ENODEV}
     /\ \A j \in 1 .. 3 :
          init_all.each[j] = 0 => motors[MotorSeq[j]].initialized

\* tmc9660_init_all is about to return -ENODEV: tmc9660_init failed on A
\* with a timeout, then succeeded on B and on C.
C27_Witness ==
  /\ init_all.pc = "return"
  /\ init_all.each = <<-ETIMEDOUT, 0, 0>>
  /\ init_all.ret = -ENODEV
  /\ ~motors["A"].initialized
  /\ motors["B"].initialized
  /\ motors["C"].initialized

\* C28: the cached bank and address, the flag and the chip fields of an
\* instance, and its mutex, change only in a step of a thread whose call
\* is on that instance; a thread pends only on the mutex of the instance of
\* its call and only while another thread owns it; and a call of app on A
\* returns though ctl, inside a call on B, never takes another step.
C28_InstancesIndependent ==
  /\ [][\A m \in Motors :
          (motors'[m] # motors[m] \/ mutex'[m] # mutex[m])
          => \E c \in Callers : call[c].motor = m /\ tpc'[c] # tpc[c]]_vars
  /\ [][\A c \in Callers :
          (tpc[c] # "pend" /\ tpc'[c] = "pend")
          => /\ mutex[call[c].motor].owner \in Callers \ {c}
             /\ mutex'[call[c].motor].wait_q = <<c>>]_vars
  /\ (tpc["app"] # "idle" /\ call["app"].motor = "A") ~> (tpc["app"] = "idle")

\* ctl waits in uart_recv for the reply to SET_BANK on B, holding B's mutex,
\* while app comes to the end of a set_address on A that succeeded.
C28_Witness ==
  /\ tpc["ctl"] = "transact"
  /\ call["ctl"].motor = "B"
  /\ mutex["B"].owner = "ctl"
  /\ tpc["app"] = "unlock"
  /\ call["app"].op = "set_address"
  /\ call["app"].motor = "A"
  /\ call["app"].ret = 0
  /\ mutex["A"].owner = "app"
  /\ motors["A"].current_addr = TMC9660_CONFIG_BASE_ADDR + 4
  /\ motors["B"].current_addr = 0
  /\ motors["B"].current_bank = BANK_INVALID

\* The quaternion of f is (1, 0, 0, 0).
IsIdentity(f) ==
  /\ f.q0 = Lit(1)
  /\ f.q1 = Lit(0)
  /\ f.q2 = Lit(0)
  /\ f.q3 = Lit(0)

\* C30: madgwick_update with gyro (0, 0, 0) and accel (0, 0, 1) on the
\* identity quaternion leaves the identity quaternion.
C30_IdentityStaysIdentity ==
  [][(IsIdentity(filter)
      /\ madgwick_update(Vec(0, 0, 0), Vec(0, 0, Scale)))
     => IsIdentity(filter')]_vars

\* C39: when the dispatch of a valid StartHoming frame has returned the mode
\* is Homing, and when the dispatch of a valid SetMode frame has returned
\* the mode is the frame's mode byte and, for the byte of Operation, the
\* latch is clear, whatever the frame's target segment id and this node's
\* own id are.
C39_ModeFramesIgnoreTarget ==
  \A t \in Threads :
    /\ (Returned(t) /\ IsCmd(rx[t], CMD_START_HOMING))
       => (current_mode = MODE_HOMING /\ ret[t] = CMD_START_HOMING)
    /\ (Returned(t) /\ IsCmd(rx[t], CMD_SET_MODE))
       => ( /\ current_mode = PktPayload0(rx[t])
            /\ ret[t] = CMD_SET_MODE
            /\ (PktPayload0(rx[t]) = MODE_OPERATION
                => ~emergency_stop_active) )

\* SetMode(Operation) for segment 7 has returned on node 3, which was idle
\* with its latch set.
C39_Witness ==
  \E t \in Threads :
    /\ Returned(t)
    /\ IsSetModeOperation(rx[t])
    /\ PktSegment(rx[t]) = 7
    /\ my_segment_id = 3
    /\ pre[t].mode = MODE_IDLE
    /\ pre[t].estop
    /\ current_mode = MODE_OPERATION
    /\ ~emergency_stop_active

\* C40: no step takes last_error from an error code back to "no error";
\* when a dispatch has returned from one of the three counted tests
\* last_error is an error code; and in every state where it is one, the
\* status byte has bit 7 set.
C40_LastErrorIsNeverReset ==
  /\ [][last_error # ERROR_NO_ERROR => last_error' # ERROR_NO_ERROR]_vars
  /\ [](\A t \in Threads :
          (Returned(t)
           /\ RejectCause(rx[t])
                \in {"TooShort", "MagicMismatch", "ChecksumError"})
          => last_error # ERROR_NO_ERROR)
  /\ [](last_error # ERROR_NO_ERROR => Bit(packet_get_status_flags, 7) = 1)

\* SetMode(Operation) has been dispatched on a node that had recorded an
\* error: the error code is still there and bit 7 is set.
C40_Witness ==
  \E t \in Threads :
    /\ Returned(t)
    /\ IsSetModeOperation(rx[t])
    /\ pre[t].last = ERROR_CRC_ERROR
    /\ pre[t].estop
    /\ ~emergency_stop_active
    /\ last_error = ERROR_CRC_ERROR
    /\ packet_get_status_flags = STATUS_TRAJECTORY_EXECUTING + STATUS_ERROR_PRESENT

\* C38: an instance that tmc9660_is_ready reports ready holds the chip type
\* 0x544D0001, and when a tmc9660_init on it is about to return, it is
\* about to return 0.
C38_ReadyMeansLastInitSucceeded ==
  /\ \A m \in Motors :
       motors[m].initialized
       => motors[m].chip_type = TMC9660_CHIP_TYPE_EXPECTED
  /\ \A c \in Callers :
       (tpc[c] = "return" /\ call[c].op = "init"
        /\ motors[call[c].motor].initialized)
       => call[c].ret = 0

\* C33: a MotorState packet whose build ends while the estimator is invalid
\* carries the orientation 0, 0, 0.
C33_FramesBuiltWhileInvalidAreZero ==
  [][(reader_pc # "built" /\ reader_pc' = "built" /\ ~current_data.valid)
     => pkt_imu' = NoAngles]_vars

\* q0*q0 + q1*q1 + q2*q2 + q3*q3 of f.
NormSquared(f) ==
  FSum4(FMul(f.q0, f.q0), FMul(f.q1, f.q1), FMul(f.q2, f.q2),
        FMul(f.q3, f.q3))

\* C31: after every madgwick_update the quaternion has magnitude 1: the sum
\* of the squares of its components is a number within a hundredth of 1.
C31_UnitQuaternion ==
  updates > 0
  => /\ NormSquared(filter).k = "num"
     /\ Abs(NormSquared(filter).v - Scale) <= Scale \div 100

\* C32: the roll, pitch and yaw that madgwick_get_euler returned are
\* numbers, and the pitch is plus or minus pi/2 with the sign of the pitch
\* sine when that has magnitude 1 or more.
C32_EulerIsFinite ==
  /\ \A a \in {euler.roll, euler.pitch, euler.yaw} : a.k = "num"
  /\ AbsAtLeastOne(euler.sinp)
     => euler.pitch = copysignf(FDiv(M_PI, Lit(2)), euler.sinp)

\* C36: whenever tmc9660_set_bank returns 0 without a transaction, because
\* the cached bank is the bank asked for, the chip has that bank selected.
C36_CacheHitMeansBankSelected ==
  [][\A c \in Callers :
       (/\ tpc[c] = "set_bank"
        /\ tpc'[c] # "set_bank"
        /\ call'[c].sent = call[c].sent)
       => chip[call[c].motor].bank = BankArg(c)]_vars

\* C35: while every transaction on the line has returned 0, a
\* tmc9660_read_config that returns 0 has read the word at its own offset,
\* a tmc9660_write_config that returns 0 has written the word at its own
\* offset, and the word at the offset nobody writes is unchanged.
C35_ConfigCallsUseOwnOffset ==
  ~chip["A"].failed
  => /\ \A c \in Callers :
          (tpc[c] = "return" /\ call[c].ret = 0)
          => /\ call[c].op = "read_config"
                => call[c].out = ResetWord(AddrArg(c))
             /\ call[c].op = "write_config"
                => chip["A"].mem[AddrArg(c)] = call[c].value
     /\ chip["A"].mem[TMC9660_CONFIG_BASE_ADDR + 4]
          = ResetWord(TMC9660_CONFIG_BASE_ADDR + 4)
\* C34: on each instance at most one thread at a time is inside a
\* transaction: no thread sends a request on the line of an instance while
\* another thread has sent one there and is still in uart_recv, also when
\* tmc9660_init is called on the instance in between.
C34_OneThreadInTransaction ==
  [][\A c \in Callers : \A d \in Callers \ {c} :
       (/\ call[c].op # "none"
        /\ Len(call'[c].sent) > Len(call[c].sent))
       => ~(tpc[d] = "transact" /\ call[d].motor = call[c].motor)]_vars
\* C37: the bytes that uart_recv has taken for the reply of a transaction
\* are bytes of the device's answer to the request of that transaction, in
\* their order from the first on.
C37_ReplyIsOfThisRequest ==
  xpc # "idle"
  => /\ Len(reply) <= Len(xact.answer)
     /\ reply = SubSeq(xact.answer, 1, Len(reply))
====
